---- MODULE Spec2Model ----
(***************************************************************************)
(* Wenderer: a WebGPU direct volume renderer.  Model of the event handlers *)
(* of src/src/main.rs (resize, keyboard input, redraw), of the Face Pass   *)
(* (D3Pass) and Composite Pass (CanvasPass) of src/src/rendering.rs, of    *)
(* the texture constructors of src/src/shading.rs, and of the per-pixel    *)
(* ray march of the composite shader.                                      *)
(*                                                                         *)
(* A texture is a record carrying the identity of its allocation (id), so  *)
(* that a binding to a texture allocated earlier differs from a binding    *)
(* to the texture allocated last.  An Option<T> is a sequence of length 0  *)
(* (None) or 1 (Some).                                                     *)
(***************************************************************************)
EXTENDS Integers, Sequences, FiniteSets, TLC

VARIABLES
    sample_count,             \* RenderConfigs.sample_count
    size,                     \* RenderState.size
    surface_configs,          \* RenderState.surface_configs (width, height, format)
    surface,                  \* what the surface was last configured with
    camera,                   \* RenderState.camera
    camera_controller,        \* RenderState.camera_controller
    front_face_pass,          \* RenderState.front_face_pass
    front_face_render_buffer, \* RenderState.front_face_render_buffer
    back_face_pass,           \* RenderState.back_face_pass
    back_face_render_buffer,  \* RenderState.back_face_render_buffer
    canvas_pass,              \* RenderState.canvas_pass
    next_tex,                 \* identity of the next texture the device creates
    frame,                    \* the GPU work of the event handled last
    exiting,                  \* event_loop.exit() was called
    px,                       \* one pixel of the composite shader's ray march
    loader                    \* one run of a loader of utils.rs

vars == <<sample_count, size, surface_configs, surface, camera, camera_controller,
          front_face_pass, front_face_render_buffer, back_face_pass,
          back_face_render_buffer, canvas_pass, next_tex, frame, exiting, px,
          loader>>

appVars == <<sample_count, size, surface_configs, surface, camera, camera_controller,
             front_face_pass, front_face_render_buffer, back_face_pass,
             back_face_render_buffer, canvas_pass, next_tex, frame, exiting>>

(***************************************************************************)
(* Bounds of the model.                                                    *)
(***************************************************************************)
\* window widths and heights are drawn from 1..MaxDim
MaxDim == 2
\* the device creates at most this many textures
MaxTextures == 23
\* eye-to-center distances are kept within MaxDist tenths of a unit
MaxDist == 29
\* the eye comes at most this many forward steps closer than it starts
MaxForward == 1
\* the eye's direction around the up axis is one of NumAngles sectors
NumAngles == 2
\* at most this many of the controller's keys are held down at once
MaxKeysDown == 1

(***************************************************************************)
(* Program constants.                                                      *)
(***************************************************************************)
FACE_RENDER_BUFFER_SAMPLE_COUNT == 1
\* CameraController::new(0.2), in tenths of a unit
Speed == 2
\* |eye - center| of the initial camera (0, -2.5, 1), in tenths of a unit
InitDist == 27

DEPTH_FORMAT == "Depth32Float"
face_buffer_format == "Rgba16Float"
preferred_format == "SurfaceFormat0"

Dims == 1..MaxDim
Sizes == Dims \X Dims
SampleCounts == {1, 4}
SurfaceErrors == {"Timeout", "Outdated", "Lost", "OutOfMemory", "Other"}

None == <<>>
Some(x) == <<x>>

RECURSIVE Gcd(_, _)
Gcd(a, b) == IF b = 0 THEN a ELSE Gcd(b, a % b)

\* a as f32 / b as f32: the quotient, as a fraction in lowest terms
Div(a, b) == <<a \div Gcd(a, b), b \div Gcd(a, b)>>

\* Matrix4::from_nonuniform_scale(x / mid, y / mid, z / mid) of the
\* 277 x 277 x 164 volume, mid being the median dimension
cube_scaling == <<Div(277, 277), Div(277, 277), Div(164, 277)>>

(***************************************************************************)
(* shading.rs: texture constructors.                                       *)
(***************************************************************************)
CreateDepthTexture(id, width, height, sample_cnt) ==
    [id |-> id, width |-> width, height |-> height,
     sample_count |-> sample_cnt, format |-> DEPTH_FORMAT]

CreateRenderBuffer(id, dimensions, sample_cnt, format) ==
    [id |-> id, width |-> dimensions[1], height |-> dimensions[2],
     sample_count |-> sample_cnt, format |-> format]

(***************************************************************************)
(* rendering.rs: Camera and the Face Pass (D3Pass).                        *)
(***************************************************************************)
\* proj * view * model: the matrix as the term of everything it is computed from
BuildViewProjectionMatrix(cam, model_transformation) ==
    [view |-> <<cam.eye, cam.center, cam.up>>,
     proj |-> <<cam.fovy, cam.aspect, cam.znear, cam.zfar>>,
     model |-> model_transformation]

\* FaceRenderConfig with the depth test of the entry pass used for both passes
FaceRenderConfigSameDepthTest(render_front_face) ==
    IF render_front_face
    THEN <<"Back", "Less", [clear |-> 1]>>
    ELSE <<"Front", "Less", [clear |-> 1]>>

\* (cull mode, depth compare, depth load op) of a Face Pass
FaceRenderConfig(render_front_face) ==
    IF render_front_face
    THEN <<"Back", "Less", [clear |-> 1]>>
    ELSE <<"Front", "Greater", [clear |-> 0]>>

\* CubeIndices with the first triangle listed in the opposite order
CubeIndicesFirstFlipped ==
    <<0, 3, 1, 3, 1, 2,
      2, 1, 5, 2, 5, 6,
      3, 2, 7, 7, 2, 6,
      4, 0, 3, 4, 3, 7,
      4, 1, 0, 4, 5, 1,
      7, 6, 5, 7, 5, 4>>

\* the 36 indices of create_cube_fbo
CubeIndices ==
    <<0, 1, 3, 3, 1, 2,
      2, 1, 5, 2, 5, 6,
      3, 2, 7, 7, 2, 6,
      4, 0, 3, 4, 3, 7,
      4, 1, 0, 4, 5, 1,
      7, 6, 5, 7, 5, 4>>

\* Rectangle::INDICES
RectangleIndices == <<0, 1, 2, 0, 2, 3>>

(***************************************************************************)
(* geometries.rs and utils.rs: the meshes.  Coordinates are in quarters of *)
(* a unit.                                                                 *)
(***************************************************************************)
\* side / 2.0 of create_cube_fbo: 0.5
side2 == 2
\* side of create_cube_fbo: 1.0
side == 2 * side2

\* the four columns of the matrix
OPENGL_TO_WGPU_MATRIX ==
    <<<<side, 0, 0, 0>>,
      <<0, side, 0, 0>>,
      <<0, 0, side2, 0>>,
      <<0, 0, side2, side>>>>

\* matrix * vector
MatVec(mat, v) ==
    [r \in 1..4 |->
        (mat[1][r] * v[1] + mat[2][r] * v[2] + mat[3][r] * v[3] + mat[4][r] * v[4])
            \div side]

\* matrix * matrix, column by column
MatMul(a, b) == [c \in 1..4 |-> MatVec(a, b[c])]

\* the position Mesh2::new and Mesh3::new store for the vertex v: the
\* transformed (v, 1.0), divided by its w
TransformedPosition(transform_matrix, v) ==
    LET mat == IF transform_matrix = None
               THEN OPENGL_TO_WGPU_MATRIX
               ELSE MatMul(transform_matrix[1], OPENGL_TO_WGPU_MATRIX)
        t == MatVec(mat, <<v[1], v[2], v[3], side>>)
    IN  <<(t[1] * side) \div t[4], (t[2] * side) \div t[4], (t[3] * side) \div t[4]>>

\* Mesh3::new with the position kept as the caller gave it
Mesh3NewUntransformed(vertices, indices, attribs_3D, transform_matrix) ==
    [vertices |-> [i \in DOMAIN vertices |->
                      [position |-> vertices[i], attrib |-> attribs_3D[i]]],
     indices |-> indices]

\* Mesh3::new, for vertices and attribs_3D of one length
Mesh3New(vertices, indices, attribs_3D, transform_matrix) ==
    [vertices |-> [i \in DOMAIN vertices |->
                      [position |-> TransformedPosition(transform_matrix, vertices[i]),
                       attrib |-> attribs_3D[i]]],
     indices |-> indices]

\* Mesh2::new, for vertices and attribs_2D of one length
Mesh2New(vertices, indices, attribs_2D, transform_matrix) ==
    [vertices |-> [i \in DOMAIN vertices |->
                      [position |-> TransformedPosition(transform_matrix, vertices[i]),
                       attrib |-> attribs_2D[i]]],
     indices |-> indices]

\* the vertices of create_cube_fbo
CubeVertices ==
    <<<<-side2, -side2, side2>>, <<side2, -side2, side2>>,
      <<side2, side2, side2>>, <<-side2, side2, side2>>,
      <<-side2, -side2, -side2>>, <<side2, -side2, -side2>>,
      <<side2, side2, -side2>>, <<-side2, side2, -side2>>>>

\* the attribs_3d of create_cube_fbo
CubeAttribs ==
    <<<<0, 0, side>>, <<side, 0, side>>, <<side, side, side>>, <<0, side, side>>,
      <<0, 0, 0>>, <<side, 0, 0>>, <<side, side, 0>>, <<0, side, 0>>>>

create_cube_fbo == Mesh3New(CubeVertices, CubeIndices, CubeAttribs, None)

\* Rectangle::new
RectangleNew ==
    Mesh2New(<<<<0, 0, 0>>, <<side, 0, 0>>, <<side, side, 0>>, <<0, side, 0>>>>,
             RectangleIndices,
             <<<<0, side>>, <<side, side>>, <<side, 0>>, <<0, 0>>>>,
             None)

\* Rectangle::new_standard_rectangle: the full-screen quad, a Rectangle
\* whose four vertices are the corners of the screen
new_standard_rectangle ==
    Mesh2New(<<<<-side, -side, 0>>, <<side, -side, 0>>,
               <<side, side, 0>>, <<-side, side, 0>>>>,
             RectangleIndices,
             <<<<0, side>>, <<side, side>>, <<side, 0>>, <<0, 0>>>>,
             None)

\* GetNumIndices that counts the vertices
GetNumVertices(mesh) == Len(mesh.vertices)

\* Geometry::get_num_indices
GetNumIndices(mesh) == Len(mesh.indices)

\* D3PassNew whose exit pass clears its color target to white
D3PassNewExitClearsWhite(id, render_width, render_height, target_format, render_front_face, cam, sample_cnt, cube_transformation) ==
    LET face_render_config == FaceRenderConfig(render_front_face)
        mvp == BuildViewProjectionMatrix(cam, cube_transformation)
    IN  [depth_texture |-> CreateDepthTexture(id + 1, render_width, render_height, sample_cnt),
         uniforms |-> mvp,
         uniform_buffer |-> mvp,
         vertex_buffer |-> create_cube_fbo.vertices,
         index_buffer |-> create_cube_fbo.indices,
         num_depth_indices |-> GetNumIndices(create_cube_fbo),
         render_pipeline |-> [label |-> "3DPass Render Pipeline",
                              format |-> target_format,
                              front_face |-> "Ccw",
                              cull_mode |-> face_render_config[1],
                              depth_format |-> DEPTH_FORMAT,
                              depth_compare |-> face_render_config[2],
                              multisample_count |-> sample_cnt],
         depth_clear_op |-> face_render_config[3],
         multisample_buffer |->
             IF sample_cnt > 1
             THEN Some(CreateRenderBuffer(id, <<render_width, render_height>>,
                                          sample_cnt, target_format))
             ELSE None,
         clear_color |-> IF render_front_face THEN <<0, 0, 0, 1>> ELSE <<1, 1, 1, 1>>,
         sample_count |-> sample_cnt]

D3PassNew(id, render_width, render_height, target_format, render_front_face, cam, sample_cnt, cube_transformation) ==
    LET face_render_config == FaceRenderConfig(render_front_face)
        mvp == BuildViewProjectionMatrix(cam, cube_transformation)
    IN  [depth_texture |-> CreateDepthTexture(id + 1, render_width, render_height, sample_cnt),
         uniforms |-> mvp,
         uniform_buffer |-> mvp,
         vertex_buffer |-> create_cube_fbo.vertices,
         index_buffer |-> create_cube_fbo.indices,
         num_depth_indices |-> GetNumIndices(create_cube_fbo),
         render_pipeline |-> [label |-> "3DPass Render Pipeline",
                              format |-> target_format,
                              front_face |-> "Ccw",
                              cull_mode |-> face_render_config[1],
                              depth_format |-> DEPTH_FORMAT,
                              depth_compare |-> face_render_config[2],
                              multisample_count |-> sample_cnt],
         depth_clear_op |-> face_render_config[3],
         multisample_buffer |->
             IF sample_cnt > 1
             THEN Some(CreateRenderBuffer(id, <<render_width, render_height>>,
                                          sample_cnt, target_format))
             ELSE None,
         clear_color |-> <<0, 0, 0, 1>>,
         sample_count |-> sample_cnt]

UpdateModelViewProjUniform(pass, model_transformation, cam) ==
    LET mvp == BuildViewProjectionMatrix(cam, model_transformation)
    IN  [pass EXCEPT !.uniforms = mvp, !.uniform_buffer = mvp]

\* D3PassResize that forgets the depth buffer
D3PassResizeKeepsDepth(pass, id, render_width, render_height) ==
    [pass EXCEPT
        !.multisample_buffer =
            IF pass.multisample_buffer = None
            THEN None
            ELSE Some(CreateRenderBuffer(id, <<render_width, render_height>>,
                                         pass.sample_count,
                                         pass.multisample_buffer[1].format))]

\* D3PassResize that does not create the multisample buffer again
D3PassResizeDropsMultisample(pass, id, render_width, render_height) ==
    [pass EXCEPT
        !.depth_texture = CreateDepthTexture(id + 1, render_width, render_height,
                                             pass.sample_count),
        !.multisample_buffer = None]

\* D3PassResize whose depth buffer is not multisampled
D3PassResizeSingleSampleDepth(pass, id, render_width, render_height) ==
    [pass EXCEPT
        !.depth_texture = CreateDepthTexture(id + 1, render_width, render_height, 1),
        !.multisample_buffer =
            IF pass.multisample_buffer = None
            THEN None
            ELSE Some(CreateRenderBuffer(id, <<render_width, render_height>>,
                                         pass.sample_count,
                                         pass.multisample_buffer[1].format))]

\* D3PassResize that gives the depth texture the width as its height and
\* the height as its width
D3PassResizeTransposesDepth(pass, id, render_width, render_height) ==
    [pass EXCEPT
        !.depth_texture = CreateDepthTexture(id + 1, render_height, render_width,
                                             pass.sample_count),
        !.multisample_buffer =
            IF pass.multisample_buffer = None
            THEN None
            ELSE Some(CreateRenderBuffer(id, <<render_width, render_height>>,
                                         pass.sample_count,
                                         pass.multisample_buffer[1].format))]

D3PassResize(pass, id, render_width, render_height) ==
    [pass EXCEPT
        !.depth_texture = CreateDepthTexture(id + 1, render_width, render_height,
                                             pass.sample_count),
        !.multisample_buffer =
            IF pass.multisample_buffer = None
            THEN None
            ELSE Some(CreateRenderBuffer(id, <<render_width, render_height>>,
                                         pass.sample_count,
                                         pass.multisample_buffer[1].format))]

\* D3PassRender that loads what its color attachment held
D3PassRenderLoadsColor(pass, render_into_view, external_depth_view) ==
    [view |-> IF pass.multisample_buffer = None
              THEN render_into_view
              ELSE pass.multisample_buffer[1],
     resolve_target |-> IF pass.multisample_buffer = None
                        THEN None
                        ELSE Some(render_into_view),
     color_load |-> [load |-> TRUE],
     depth_view |-> IF external_depth_view = None
                    THEN Some(pass.depth_texture)
                    ELSE external_depth_view,
     depth_load |-> Some(pass.depth_clear_op),
     pipeline |-> pass.render_pipeline,
     vertex_buffer |-> pass.vertex_buffer,
     index_buffer |-> pass.index_buffer,
     bind_groups |-> <<[uniform |-> pass.uniform_buffer]>>,
     draw_indexed |-> pass.num_depth_indices]

\* D3PassRender that names a resolve target whether or not the pass has a
\* multisample buffer
D3PassRenderAlwaysResolves(pass, render_into_view, external_depth_view) ==
    [view |-> IF pass.multisample_buffer = None
              THEN render_into_view
              ELSE pass.multisample_buffer[1],
     resolve_target |-> Some(render_into_view),
     color_load |-> [clear |-> pass.clear_color],
     depth_view |-> IF external_depth_view = None
                    THEN Some(pass.depth_texture)
                    ELSE external_depth_view,
     depth_load |-> Some(pass.depth_clear_op),
     pipeline |-> pass.render_pipeline,
     vertex_buffer |-> pass.vertex_buffer,
     index_buffer |-> pass.index_buffer,
     bind_groups |-> <<[uniform |-> pass.uniform_buffer]>>,
     draw_indexed |-> pass.num_depth_indices]

\* the render pass D3Pass::render records: its attachments, its pipeline and
\* the resources it draws with
D3PassRender(pass, render_into_view, external_depth_view) ==
    [view |-> IF pass.multisample_buffer = None
              THEN render_into_view
              ELSE pass.multisample_buffer[1],
     resolve_target |-> IF pass.multisample_buffer = None
                        THEN None
                        ELSE Some(render_into_view),
     color_load |-> [clear |-> pass.clear_color],
     depth_view |-> IF external_depth_view = None
                    THEN Some(pass.depth_texture)
                    ELSE external_depth_view,
     depth_load |-> Some(pass.depth_clear_op),
     pipeline |-> pass.render_pipeline,
     vertex_buffer |-> pass.vertex_buffer,
     index_buffer |-> pass.index_buffer,
     bind_groups |-> <<[uniform |-> pass.uniform_buffer]>>,
     draw_indexed |-> pass.num_depth_indices]

(***************************************************************************)
(* data.rs and rendering.rs: the Composite Pass (CanvasPass).              *)
(***************************************************************************)
\* CanvasShaderUniforms::default(), every value as a fraction
CanvasShaderUniformsDefault ==
    [step_size |-> Div(25, 10000),
     base_distance |-> Div(25, 10000),
     opacity_threshold |-> Div(95, 100),
     ambient_intensity |-> Div(5, 10),
     diffuse_intensity |-> Div(5, 10),
     specular_intensity |-> Div(5, 10),
     shininess |-> Div(32, 1)]

\* face_texture_bind_group_layout: what its texture bindings 0 and 2 accept
face_texture_bind_group_layout ==
    [front |-> [multisampled |-> FALSE, view_dimension |-> "D2"],
     back |-> [multisampled |-> FALSE, view_dimension |-> "D2"]]

\* the bind group of the entry and exit textures: the views bound at 0 and 2
FaceTextureBindGroup(front_face_texture, back_face_texture) ==
    [front |-> front_face_texture, back |-> back_face_texture]

CanvasPassNew(id, front_rb, back_rb, volume_texture, resolution, tex_format, sample_cnt) ==
    [face_texture_bind_group |-> FaceTextureBindGroup(front_rb, back_rb),
     volume_bind_group |-> volume_texture,
     tf_bind_group |-> [id |-> id + 1, width |-> 12, height |-> 1,
                        sample_count |-> 1, format |-> "Rgba8UnormSrgb"],
     uniforms |-> CanvasShaderUniformsDefault,
     uniform_buffer |-> CanvasShaderUniformsDefault,
     vertex_buffer |-> new_standard_rectangle.vertices,
     index_buffer |-> new_standard_rectangle.indices,
     num_depth_indices |-> GetNumIndices(new_standard_rectangle),
     render_pipeline |-> [label |-> "Canvas Pass Render Pipeline",
                          format |-> tex_format,
                          front_face |-> "Ccw",
                          cull_mode |-> "Back",
                          multisample_count |-> sample_cnt],
     sample_count |-> sample_cnt,
     multisample_buffer |->
         IF sample_cnt > 1
         THEN Some(CreateRenderBuffer(id, resolution, sample_cnt, tex_format))
         ELSE None]

\* ChangeBoundFaceTextures that keeps the bind group it had
ChangeBoundFaceTexturesKeepsOld(pass, front_face_texture, back_face_texture) == pass

ChangeBoundFaceTextures(pass, front_face_texture, back_face_texture) ==
    [pass EXCEPT !.face_texture_bind_group =
                     FaceTextureBindGroup(front_face_texture, back_face_texture)]

\* CanvasPassResize that binds the entry texture where the exit texture
\* belongs and the exit texture where the entry texture belongs
CanvasPassResizeSwapsFaces(pass, id, width, height) ==
    [pass EXCEPT
        !.face_texture_bind_group =
            FaceTextureBindGroup(pass.face_texture_bind_group.back,
                                 pass.face_texture_bind_group.front),
        !.multisample_buffer =
            IF pass.multisample_buffer = None
            THEN None
            ELSE Some(CreateRenderBuffer(id, <<width, height>>, pass.sample_count,
                                         pass.multisample_buffer[1].format))]

\* CanvasPassResize whose new buffer has twice the samples of the old one
CanvasPassResizeDoublesSamples(pass, id, width, height) ==
    [pass EXCEPT
        !.multisample_buffer =
            IF pass.multisample_buffer = None
            THEN None
            ELSE Some(CreateRenderBuffer(id, <<width, height>>,
                                         2 * pass.multisample_buffer[1].sample_count,
                                         pass.multisample_buffer[1].format))]

CanvasPassResize(pass, id, width, height) ==
    [pass EXCEPT
        !.multisample_buffer =
            IF pass.multisample_buffer = None
            THEN None
            ELSE Some(CreateRenderBuffer(id, <<width, height>>, pass.sample_count,
                                         pass.multisample_buffer[1].format))]

\* set_uniforms that leaves the uniform buffer as it was
SetUniformsStoresOnly(pass, uniforms) == [pass EXCEPT !.uniforms = uniforms]

\* CanvasPass::set_uniforms: the clone is stored and written to the buffer
SetUniforms(pass, uniforms) ==
    [pass EXCEPT !.uniforms = uniforms, !.uniform_buffer = uniforms]

CanvasPassRender(pass, render_into_view) ==
    [view |-> IF pass.multisample_buffer = None
              THEN render_into_view
              ELSE pass.multisample_buffer[1],
     resolve_target |-> IF pass.multisample_buffer = None
                        THEN None
                        ELSE Some(render_into_view),
     color_load |-> [clear |-> <<0, 0, 0, 0>>],
     depth_view |-> None,
     depth_load |-> None,
     pipeline |-> pass.render_pipeline,
     vertex_buffer |-> pass.vertex_buffer,
     index_buffer |-> pass.index_buffer,
     bind_groups |-> <<pass.face_texture_bind_group, pass.volume_bind_group,
                       pass.tf_bind_group, [uniform |-> pass.uniform_buffer]>>,
     draw_indexed |-> pass.num_depth_indices]

(***************************************************************************)
(* utils.rs: the camera controller.  The eye is at eye.dist tenths of a    *)
(* unit from the center, in sector eye.ang around the up axis.             *)
(***************************************************************************)
CameraControllerNew ==
    [is_up_pressed |-> FALSE, is_down_pressed |-> FALSE,
     is_forward_pressed |-> FALSE, is_backward_pressed |-> FALSE,
     is_left_pressed |-> FALSE, is_right_pressed |-> FALSE]

Keys == {"Space", "LShift", "W", "Up", "A", "Left", "S", "Down", "D", "Right",
         "Escape", "Other"}

PressedCount(ctl) == Cardinality({k \in DOMAIN ctl : ctl[k]})

\* the controller after the key event, and whether the event was consumed
ProcessEvents(ctl, keycode, is_pressed) ==
    CASE keycode = "Space" -> <<[ctl EXCEPT !.is_up_pressed = is_pressed], TRUE>>
      [] keycode = "LShift" -> <<[ctl EXCEPT !.is_down_pressed = is_pressed], TRUE>>
      [] keycode \in {"W", "Up"} -> <<[ctl EXCEPT !.is_forward_pressed = is_pressed], TRUE>>
      [] keycode \in {"A", "Left"} -> <<[ctl EXCEPT !.is_left_pressed = is_pressed], TRUE>>
      [] keycode \in {"S", "Down"} -> <<[ctl EXCEPT !.is_backward_pressed = is_pressed], TRUE>>
      [] keycode \in {"D", "Right"} -> <<[ctl EXCEPT !.is_right_pressed = is_pressed], TRUE>>
      [] OTHER -> <<ctl, FALSE>>

\* UpdateCamera that steps forward however near the center the eye is
UpdateCameraUnguarded(ctl, cam) ==
    LET d0 == cam.eye.dist
        d1 == IF ctl.is_forward_pressed THEN d0 - Speed ELSE d0
        d2 == IF ctl.is_backward_pressed THEN d1 + Speed ELSE d1
        a0 == cam.eye.ang
        a1 == IF ctl.is_right_pressed THEN (a0 + 1) % NumAngles ELSE a0
        a2 == IF ctl.is_left_pressed THEN (a0 + NumAngles - 1) % NumAngles ELSE a1
    IN  [cam EXCEPT !.eye = [dist |-> d2, ang |-> a2]]

UpdateCamera(ctl, cam) ==
    LET d0 == cam.eye.dist
        d1 == IF ctl.is_forward_pressed /\ d0 > Speed THEN d0 - Speed ELSE d0
        d2 == IF ctl.is_backward_pressed THEN d1 + Speed ELSE d1
        a0 == cam.eye.ang
        a1 == IF ctl.is_right_pressed THEN (a0 + 1) % NumAngles ELSE a0
        \* the left turn starts from the direction computed before the right turn
        a2 == IF ctl.is_left_pressed THEN (a0 + NumAngles - 1) % NumAngles ELSE a1
    IN  [cam EXCEPT !.eye = [dist |-> d2, ang |-> a2]]

(***************************************************************************)
(* main.rs: RenderState and the handlers of App.                           *)
(***************************************************************************)
RS == [sample_count |-> sample_count, size |-> size,
       surface_configs |-> surface_configs, surface |-> surface,
       camera |-> camera, camera_controller |-> camera_controller,
       front_face_pass |-> front_face_pass,
       front_face_render_buffer |-> front_face_render_buffer,
       back_face_pass |-> back_face_pass,
       back_face_render_buffer |-> back_face_render_buffer,
       canvas_pass |-> canvas_pass, next_tex |-> next_tex]

SetRS(rs) ==
    /\ sample_count' = rs.sample_count
    /\ size' = rs.size
    /\ surface_configs' = rs.surface_configs
    /\ surface' = rs.surface
    /\ camera' = rs.camera
    /\ camera_controller' = rs.camera_controller
    /\ front_face_pass' = rs.front_face_pass
    /\ front_face_render_buffer' = rs.front_face_render_buffer
    /\ back_face_pass' = rs.back_face_pass
    /\ back_face_render_buffer' = rs.back_face_render_buffer
    /\ canvas_pass' = rs.canvas_pass
    /\ next_tex' = rs.next_tex

\* the identity of the first texture created after RenderState::new, which
\* creates the volume texture, two render buffers, two textures per Face
\* Pass and two for the Composite Pass
InitialTextures == 10

\* RenderState::new for a window of size sz
RenderStateNew(sz, sample_cnt) ==
    LET cam == [eye |-> [dist |-> InitDist, ang |-> 0],
                center |-> <<0, 0, 0>>,
                up |-> <<0, 0, 1>>,
                aspect |-> Div(sz[1], sz[2]),
                fovy |-> 45,
                znear |-> Div(1, 10),
                zfar |-> 100]
        configs == [width |-> sz[1], height |-> sz[2], format |-> preferred_format]
        volume_texture == [id |-> 1, width |-> 277, height |-> 277, depth |-> 164,
                           sample_count |-> 1, format |-> "R16Float"]
        front_rb == CreateRenderBuffer(2, sz, FACE_RENDER_BUFFER_SAMPLE_COUNT,
                                       face_buffer_format)
        back_rb == CreateRenderBuffer(5, sz, FACE_RENDER_BUFFER_SAMPLE_COUNT,
                                      face_buffer_format)
    IN  [sample_count |-> sample_cnt,
         size |-> sz,
         surface_configs |-> configs,
         surface |-> configs,
         camera |-> cam,
         camera_controller |-> CameraControllerNew,
         front_face_pass |-> D3PassNew(3, sz[1], sz[2], front_rb.format, TRUE,
                                       cam, sample_cnt, cube_scaling),
         front_face_render_buffer |-> front_rb,
         back_face_pass |-> D3PassNew(6, sz[1], sz[2], back_rb.format, FALSE,
                                      cam, sample_cnt, cube_scaling),
         back_face_render_buffer |-> back_rb,
         canvas_pass |-> CanvasPassNew(8, front_rb, back_rb, volume_texture, sz,
                                       preferred_format, sample_cnt),
         next_tex |-> InitialTextures]

\* the number of textures one App::resize creates at most
TexturesPerResize == 7

\* AppResize that gives the new render buffers the sample count of the passes
AppResizeMultisampledBuffers(rs, new_size) ==
    LET id == rs.next_tex
        configs == [rs.surface_configs EXCEPT !.width = new_size[1],
                                              !.height = new_size[2]]
        cam == [rs.camera EXCEPT !.aspect = Div(new_size[1], new_size[2])]
        front_rb == CreateRenderBuffer(id + 5, new_size,
                                       rs.sample_count,
                                       rs.front_face_render_buffer.format)
        back_rb == CreateRenderBuffer(id + 6, new_size,
                                      rs.sample_count,
                                      rs.back_face_render_buffer.format)
    IN  [rs EXCEPT
            !.size = new_size,
            !.surface_configs = configs,
            !.camera = cam,
            !.surface = configs,
            !.front_face_pass =
                UpdateModelViewProjUniform(
                    D3PassResize(rs.front_face_pass, id, new_size[1], new_size[2]),
                    cube_scaling, cam),
            !.back_face_pass =
                UpdateModelViewProjUniform(
                    D3PassResize(rs.back_face_pass, id + 2, new_size[1], new_size[2]),
                    cube_scaling, cam),
            !.front_face_render_buffer = front_rb,
            !.back_face_render_buffer = back_rb,
            !.canvas_pass =
                ChangeBoundFaceTextures(
                    CanvasPassResize(rs.canvas_pass, id + 4, new_size[1], new_size[2]),
                    front_rb, back_rb),
            !.next_tex = id + TexturesPerResize]

\* App::resize
AppResize(rs, new_size) ==
    LET id == rs.next_tex
        configs == [rs.surface_configs EXCEPT !.width = new_size[1],
                                              !.height = new_size[2]]
        cam == [rs.camera EXCEPT !.aspect = Div(new_size[1], new_size[2])]
        front_rb == CreateRenderBuffer(id + 5, new_size,
                                       FACE_RENDER_BUFFER_SAMPLE_COUNT,
                                       rs.front_face_render_buffer.format)
        back_rb == CreateRenderBuffer(id + 6, new_size,
                                      FACE_RENDER_BUFFER_SAMPLE_COUNT,
                                      rs.back_face_render_buffer.format)
    IN  [rs EXCEPT
            !.size = new_size,
            !.surface_configs = configs,
            !.camera = cam,
            !.surface = configs,
            !.front_face_pass =
                UpdateModelViewProjUniform(
                    D3PassResize(rs.front_face_pass, id, new_size[1], new_size[2]),
                    cube_scaling, cam),
            !.back_face_pass =
                UpdateModelViewProjUniform(
                    D3PassResize(rs.back_face_pass, id + 2, new_size[1], new_size[2]),
                    cube_scaling, cam),
            !.front_face_render_buffer = front_rb,
            !.back_face_render_buffer = back_rb,
            !.canvas_pass =
                ChangeBoundFaceTextures(
                    CanvasPassResize(rs.canvas_pass, id + 4, new_size[1], new_size[2]),
                    front_rb, back_rb),
            !.next_tex = id + TexturesPerResize]

\* App::update that pushes the uniform of the exit pass before moving the camera
AppUpdateStaleExit(rs) ==
    LET cam == UpdateCamera(rs.camera_controller, rs.camera)
    IN  [rs EXCEPT
            !.camera = cam,
            !.front_face_pass =
                UpdateModelViewProjUniform(rs.front_face_pass, cube_scaling, cam),
            !.back_face_pass =
                UpdateModelViewProjUniform(rs.back_face_pass, cube_scaling, rs.camera)]

\* App::update
AppUpdate(rs) ==
    LET cam == UpdateCamera(rs.camera_controller, rs.camera)
    IN  [rs EXCEPT
            !.camera = cam,
            !.front_face_pass =
                UpdateModelViewProjUniform(rs.front_face_pass, cube_scaling, cam),
            !.back_face_pass =
                UpdateModelViewProjUniform(rs.back_face_pass, cube_scaling, cam)]

NoFrame == [acquire |-> "None", encoder |-> None, submitted |-> <<>>,
            presented |-> FALSE, handled |-> "None"]

\* RecordPasses with the composite pass recorded before the exit pass
RecordPassesCompositeEarly(rs, frame_tex_view) ==
    <<D3PassRender(rs.front_face_pass, rs.front_face_render_buffer, None),
      CanvasPassRender(rs.canvas_pass, frame_tex_view),
      D3PassRender(rs.back_face_pass, rs.back_face_render_buffer, None)>>

\* the passes App::render records into its encoder, in the order of recording
RecordPasses(rs, frame_tex_view) ==
    <<D3PassRender(rs.front_face_pass, rs.front_face_render_buffer, None),
      D3PassRender(rs.back_face_pass, rs.back_face_render_buffer, None),
      CanvasPassRender(rs.canvas_pass, frame_tex_view)>>

\* App::render that creates and submits its encoder before it looks at the
\* result of get_current_texture
AppRenderSubmitsEmpty(rs, acquire) ==
    IF acquire # "Ok"
    THEN [NoFrame EXCEPT !.acquire = acquire, !.encoder = Some(<<>>),
                         !.submitted = <<(<<>>)>>]
    ELSE LET frame_tex_view == [id |-> 0, width |-> rs.surface.width,
                                height |-> rs.surface.height,
                                sample_count |-> 1, format |-> rs.surface.format]
             encoder == RecordPasses(rs, frame_tex_view)
         IN  [acquire |-> "Ok",
              encoder |-> Some(encoder),
              submitted |-> <<encoder>>,
              presented |-> TRUE,
              handled |-> "None"]

\* App::render that records the passes in another order when the frame
\* before was rendered
AppRenderAlternates(rs, acquire) ==
    IF acquire # "Ok"
    THEN [NoFrame EXCEPT !.acquire = acquire]
    ELSE LET frame_tex_view == [id |-> 0, width |-> rs.surface.width,
                                height |-> rs.surface.height,
                                sample_count |-> 1, format |-> rs.surface.format]
             encoder == IF frame.acquire = "Ok"
                        THEN RecordPassesCompositeEarly(rs, frame_tex_view)
                        ELSE RecordPasses(rs, frame_tex_view)
         IN  [acquire |-> "Ok",
              encoder |-> Some(encoder),
              submitted |-> <<encoder>>,
              presented |-> TRUE,
              handled |-> "None"]

\* App::render, acquire being the result of surface.get_current_texture()
AppRender(rs, acquire) ==
    IF acquire # "Ok"
    THEN [NoFrame EXCEPT !.acquire = acquire]
    ELSE LET frame_tex_view == [id |-> 0, width |-> rs.surface.width,
                                height |-> rs.surface.height,
                                sample_count |-> 1, format |-> rs.surface.format]
             encoder == RecordPasses(rs, frame_tex_view)
         IN  [acquire |-> "Ok",
              encoder |-> Some(encoder),
              submitted |-> <<encoder>>,
              presented |-> TRUE,
              handled |-> "None"]

\* HandleRenderResult whose OutOfMemory falls into the arm of the other errors
HandleRenderResultLogsOutOfMemory(acquire) ==
    CASE acquire = "Ok" -> "ok"
      [] acquire = "Lost" -> "resize"
      [] OTHER -> "eprintln"

\* what the RedrawRequested arm does with the result of render
HandleRenderResult(acquire) ==
    CASE acquire = "Ok" -> "ok"
      [] acquire = "Lost" -> "resize"
      [] acquire = "OutOfMemory" -> "exit"
      [] OTHER -> "eprintln"

PxIdle == [pc |-> "idle"]

LoaderIdle == [pc |-> "idle"]

\* App::resumed: the state after RenderState::new
InitApp(sz, sample_cnt) ==
    LET rs == RenderStateNew(sz, sample_cnt)
    IN  /\ sample_count = rs.sample_count
        /\ size = rs.size
        /\ surface_configs = rs.surface_configs
        /\ surface = rs.surface
        /\ camera = rs.camera
        /\ camera_controller = rs.camera_controller
        /\ front_face_pass = rs.front_face_pass
        /\ front_face_render_buffer = rs.front_face_render_buffer
        /\ back_face_pass = rs.back_face_pass
        /\ back_face_render_buffer = rs.back_face_render_buffer
        /\ canvas_pass = rs.canvas_pass
        /\ next_tex = rs.next_tex
        /\ frame = NoFrame
        /\ exiting = FALSE

Init ==
    /\ \E sz \in Sizes, sample_cnt \in SampleCounts : InitApp(sz, sample_cnt)
    /\ px = PxIdle
    /\ loader = LoaderIdle

\* the device can still create the textures of one more resize
CanAllocate == next_tex + TexturesPerResize <= MaxTextures + 1

\* WindowEvent::Resized(physical_size)
Resized ==
    /\ ~exiting
    /\ CanAllocate
    /\ \E physical_size \in Sizes : SetRS(AppResize(RS, physical_size))
    /\ frame' = NoFrame
    /\ UNCHANGED <<exiting, px, loader>>

\* WindowEvent::ScaleFactorChanged: resize(window.inner_size())
ScaleFactorChanged ==
    /\ ~exiting
    /\ CanAllocate
    /\ \E inner_size \in Sizes : SetRS(AppResize(RS, inner_size))
    /\ frame' = NoFrame
    /\ UNCHANGED <<exiting, px, loader>>

\* WindowEvent::CloseRequested
CloseRequested ==
    /\ ~exiting
    /\ exiting' = TRUE
    /\ frame' = NoFrame
    /\ UNCHANGED <<sample_count, size, surface_configs, surface, camera,
                   camera_controller, front_face_pass, front_face_render_buffer,
                   back_face_pass, back_face_render_buffer, canvas_pass, next_tex,
                   px, loader>>

\* WindowEvent::KeyboardInput
KeyboardInput ==
    /\ ~exiting
    /\ \E keycode \in Keys, is_pressed \in BOOLEAN :
           LET r == ProcessEvents(camera_controller, keycode, is_pressed)
           IN  /\ PressedCount(r[1]) <= MaxKeysDown
               /\ camera_controller' = r[1]
               /\ exiting' = (~r[2] /\ is_pressed /\ keycode = "Escape")
    /\ frame' = NoFrame
    /\ UNCHANGED <<sample_count, size, surface_configs, surface, camera,
                   front_face_pass, front_face_render_buffer, back_face_pass,
                   back_face_render_buffer, canvas_pass, next_tex, px,
                   loader>>

\* WindowEvent::RedrawRequested
RedrawRequested ==
    /\ ~exiting
    /\ \E acquire \in {"Ok"} \cup SurfaceErrors :
           LET updated == AppUpdate(RS)
               rendered == AppRender(updated, acquire)
               handled == HandleRenderResult(acquire)
           IN  /\ updated.camera.eye.dist <= MaxDist
               /\ updated.camera.eye.dist >= InitDist - Speed * MaxForward
               /\ handled = "resize" => CanAllocate
               /\ SetRS(IF handled = "resize"
                        THEN AppResize(updated, updated.size)
                        ELSE updated)
               /\ frame' = [rendered EXCEPT !.handled = handled]
               /\ exiting' = (handled = "exit")
    /\ UNCHANGED <<px, loader>>

Next ==
    \/ Resized
    \/ ScaleFactorChanged
    \/ CloseRequested
    \/ KeyboardInput
    \/ RedrawRequested

Spec == Init /\ [][Next]_vars

(***************************************************************************)
(* Properties of the event handlers.                                       *)
(***************************************************************************)
\* the texture a recorded pass leaves its image in
Target(pass) == IF pass.resolve_target = None THEN pass.view ELSE pass.resolve_target[1]

\* every texture a recorded pass is attached to
Attachments(pass) ==
    {pass.view}
        \cup {pass.resolve_target[i] : i \in DOMAIN pass.resolve_target}
        \cup {pass.depth_view[i] : i \in DOMAIN pass.depth_view}

\* the passes of the command buffer the last handler submitted
Submitted == frame.submitted[1]

\* C1: a frame whose surface texture was acquired records exactly three
\* passes into one encoder, the entry Face Pass (cull back, into the front
\* face render buffer), the exit Face Pass (cull front, into the back face
\* render buffer), then the Composite Pass (into the surface texture); they
\* are submitted as exactly one command buffer and the frame is presented.
C1_ThreePassesInOrder ==
    frame.acquire = "Ok" =>
        /\ Len(frame.encoder) = 1
        /\ frame.submitted = <<frame.encoder[1]>>
        /\ Len(Submitted) = 3
        /\ Submitted[1].pipeline.label = "3DPass Render Pipeline"
        /\ Submitted[1].pipeline.cull_mode = "Back"
        /\ Target(Submitted[1]) = front_face_render_buffer
        /\ Submitted[2].pipeline.label = "3DPass Render Pipeline"
        /\ Submitted[2].pipeline.cull_mode = "Front"
        /\ Target(Submitted[2]) = back_face_render_buffer
        /\ Submitted[3].pipeline.label = "Canvas Pass Render Pipeline"
        /\ Target(Submitted[3]).id = 0
        /\ frame.presented

C1_Witness ==
    /\ frame.acquire = "Ok"
    /\ Len(Submitted) = 3
    /\ frame.presented
    /\ next_tex > InitialTextures

\* the render targets the passes own, with the entry and exit render buffers
RenderTargets ==
    {front_face_pass.depth_texture, back_face_pass.depth_texture,
     front_face_render_buffer, back_face_render_buffer}
        \cup {front_face_pass.multisample_buffer[i] :
                i \in DOMAIN front_face_pass.multisample_buffer}
        \cup {back_face_pass.multisample_buffer[i] :
                i \in DOMAIN back_face_pass.multisample_buffer}
        \cup {canvas_pass.multisample_buffer[i] :
                i \in DOMAIN canvas_pass.multisample_buffer}

\* C2: every render target of the Face and Composite passes and the entry
\* and exit render buffers are exactly as wide and high as the window size
\* the surface is configured with, in every state and in every attachment
\* of every pass of a rendered frame.
C2_TargetsHaveSurfaceSize ==
    /\ surface.width = size[1]
    /\ surface.height = size[2]
    /\ \A t \in RenderTargets : t.width = size[1] /\ t.height = size[2]
    /\ frame.acquire = "Ok" =>
           \A i \in DOMAIN Submitted : \A t \in Attachments(Submitted[i]) :
               t.width = size[1] /\ t.height = size[2]

C2_Witness ==
    /\ frame.acquire = "Ok"
    /\ next_tex >= InitialTextures + 2 * TexturesPerResize
    /\ size = <<2, 1>>
    /\ sample_count = 4
    /\ Cardinality(RenderTargets) = 7

\* C3: the entry and exit textures the Composite Pass has bound are the
\* current entry and exit render buffers, and in a rendered frame they are
\* the textures the two Face Passes of that frame leave their images in.
C3_CompositeReadsWhatFacesWrite ==
    /\ canvas_pass.face_texture_bind_group.front = front_face_render_buffer
    /\ canvas_pass.face_texture_bind_group.back = back_face_render_buffer
    /\ frame.acquire = "Ok" =>
           /\ Submitted[3].bind_groups[1].front.id = Target(Submitted[1]).id
           /\ Submitted[3].bind_groups[1].back.id = Target(Submitted[2]).id

C3_Witness ==
    /\ frame.acquire = "Ok"
    /\ next_tex >= InitialTextures + 2 * TexturesPerResize
    /\ Submitted[3].bind_groups[1].front.id > InitialTextures
    /\ Submitted[3].bind_groups[1].front.id = Target(Submitted[1]).id

\* C4: in a rendered frame both Face Passes draw with the view-projection
\* matrix of the current camera and cube_scaling, and the camera's aspect
\* is the current width over the current height.
C4_UniformOfCurrentCamera ==
    frame.acquire = "Ok" =>
        /\ Submitted[1].bind_groups[1].uniform =
               BuildViewProjectionMatrix(camera, cube_scaling)
        /\ Submitted[2].bind_groups[1].uniform = Submitted[1].bind_groups[1].uniform
        /\ Submitted[1].bind_groups[1].uniform.view[1] = camera.eye
        /\ Submitted[1].bind_groups[1].uniform.proj[2] = camera.aspect
        /\ camera.aspect = Div(size[1], size[2])

C4_Witness ==
    /\ frame.acquire = "Ok"
    /\ camera.eye # [dist |-> InitDist, ang |-> 0]
    /\ next_tex > InitialTextures
    /\ camera.aspect = <<1, 2>>
    /\ Submitted[2].bind_groups[1].uniform.view[1] = camera.eye

\* C5: the entry pass culls back faces, passes fragments whose depth is
\* less and clears depth to 1; the exit pass culls front faces, passes
\* fragments whose depth is greater and clears depth to 0; in every state
\* and in every rendered frame.
C5_FaceConfiguration ==
    /\ front_face_pass.render_pipeline.cull_mode = "Back"
    /\ front_face_pass.render_pipeline.depth_compare = "Less"
    /\ front_face_pass.depth_clear_op = [clear |-> 1]
    /\ back_face_pass.render_pipeline.cull_mode = "Front"
    /\ back_face_pass.render_pipeline.depth_compare = "Greater"
    /\ back_face_pass.depth_clear_op = [clear |-> 0]
    /\ frame.acquire = "Ok" =>
           /\ Submitted[1].pipeline = front_face_pass.render_pipeline
           /\ Submitted[1].depth_load = Some([clear |-> 1])
           /\ Submitted[2].pipeline = back_face_pass.render_pipeline
           /\ Submitted[2].depth_load = Some([clear |-> 0])

C5_Witness ==
    /\ frame.acquire = "Ok"
    /\ next_tex > InitialTextures
    /\ camera.eye.dist < InitDist
    /\ Submitted[2].pipeline.depth_compare = "Greater"

\* a frame whose surface texture could not be acquired
FrameFailed == frame.acquire \in SurfaceErrors

\* C10: when the surface texture cannot be acquired, no encoder is created,
\* nothing is submitted or presented, and the handler ends in one of its
\* arms; unless the error was OutOfMemory the event loop goes on, and a
\* RedrawRequested handled after the failed frame acquires again.
C10_FailedFrameAbandoned ==
    /\ [](FrameFailed =>
            /\ frame.encoder = None
            /\ frame.submitted = <<>>
            /\ ~frame.presented
            /\ frame.handled \in {"resize", "exit", "eprintln"}
            /\ (frame.acquire # "OutOfMemory" => ~exiting))
    /\ [][(FrameFailed /\ RedrawRequested) => frame'.acquire # "None"]_vars

C10_Witness ==
    /\ frame.acquire = "Timeout"
    /\ frame.handled = "eprintln"
    /\ ~exiting
    /\ next_tex > InitialTextures

\* the surface errors that pass with time
TransientErrors == {"Timeout", "Outdated", "Lost"}

\* every size-dependent target was created by the handler of the last event
TargetsReallocated ==
    \A t \in RenderTargets : t.id >= next_tex - TexturesPerResize

\* C11: after a redraw whose surface texture could not be acquired because
\* of a timeout, an outdated or a lost surface, nothing was submitted, and
\* the handler has configured the surface and created every size-dependent
\* target anew at the current size.
C11_TransientErrorReconfigures ==
    frame.acquire \in TransientErrors =>
        /\ frame.submitted = <<>>
        /\ ~frame.presented
        /\ frame.handled = "resize"
        /\ TargetsReallocated
        /\ surface = surface_configs
        /\ \A t \in RenderTargets : t.width = size[1] /\ t.height = size[2]

\* C12: a redraw that ends in OutOfMemory submits and presents nothing and
\* asks the event loop to exit, and once the exit is asked for no handler
\* submits a frame or takes the request back.
C12_OutOfMemoryExits ==
    /\ [](frame.acquire = "OutOfMemory" =>
            /\ exiting
            /\ frame.handled = "exit"
            /\ frame.submitted = <<>>
            /\ ~frame.presented)
    /\ [][exiting => (exiting' /\ frame'.submitted = <<>>)]_vars

C12_Witness ==
    /\ frame.acquire = "OutOfMemory"
    /\ exiting
    /\ next_tex > InitialTextures
    /\ camera.eye # [dist |-> InitDist, ang |-> 0]

\* the multisample buffer of a pass is there exactly when the pass is
\* multisampled, and it has the samples of the pass
MultisampleIffSampled(pass) ==
    /\ (pass.multisample_buffer # None) <=> (pass.sample_count > 1)
    /\ \A i \in DOMAIN pass.multisample_buffer :
           pass.multisample_buffer[i].sample_count = pass.sample_count

\* C13: each Face Pass and the Composite Pass has a multisample buffer if
\* and only if its sample count is greater than 1, in every state: after
\* construction and after every resize.
C13_MultisampleIffSampleCount ==
    /\ MultisampleIffSampled(front_face_pass)
    /\ MultisampleIffSampled(back_face_pass)
    /\ MultisampleIffSampled(canvas_pass)

C13_Witness ==
    /\ next_tex >= InitialTextures + 2 * TexturesPerResize
    /\ front_face_pass.sample_count = 4
    /\ front_face_pass.multisample_buffer # None
    /\ back_face_pass.multisample_buffer # None
    /\ canvas_pass.multisample_buffer # None
    /\ front_face_pass.multisample_buffer[1].id >= InitialTextures + TexturesPerResize

\* what D3Pass::resize(render_width, render_height) has to make of a pass
FaceResizeEffect(pass, resized, render_width, render_height) ==
    /\ resized.depth_texture.width = render_width
    /\ resized.depth_texture.height = render_height
    /\ resized.depth_texture.sample_count = pass.depth_texture.sample_count
    /\ resized.depth_texture.format = pass.depth_texture.format
    /\ resized.depth_texture.id # pass.depth_texture.id
    /\ DOMAIN resized.multisample_buffer = DOMAIN pass.multisample_buffer
    /\ \A i \in DOMAIN pass.multisample_buffer :
           /\ resized.multisample_buffer[i].width = render_width
           /\ resized.multisample_buffer[i].height = render_height
           /\ resized.multisample_buffer[i].sample_count =
                  pass.multisample_buffer[i].sample_count
           /\ resized.multisample_buffer[i].format = pass.multisample_buffer[i].format
           /\ resized.multisample_buffer[i].id # pass.multisample_buffer[i].id
    /\ resized.sample_count = pass.sample_count
    /\ \A f \in DOMAIN pass \ {"depth_texture", "multisample_buffer"} :
           resized[f] = pass[f]

\* C14: for each Face Pass of every state and every width and height,
\* resize gives the pass a new depth buffer, and a new multisample buffer
\* if it had one, of that width and height, with the sample count and the
\* format of the old one, and leaves every other field of the pass as it
\* was: pipeline, uniforms, index count, depth clear value, clear color.
C14_FaceResizeEffect ==
    \A render_width \in Dims, render_height \in Dims :
        /\ FaceResizeEffect(front_face_pass,
                            D3PassResize(front_face_pass, next_tex,
                                         render_width, render_height),
                            render_width, render_height)
        /\ FaceResizeEffect(back_face_pass,
                            D3PassResize(back_face_pass, next_tex + 2,
                                         render_width, render_height),
                            render_width, render_height)

C14_Witness ==
    /\ next_tex = InitialTextures + TexturesPerResize
    /\ size = <<2, 1>>
    /\ front_face_pass.sample_count = 4
    /\ front_face_pass.depth_texture =
           CreateDepthTexture(InitialTextures + 1, 2, 1, 4)
    /\ front_face_pass.multisample_buffer =
           Some(CreateRenderBuffer(InitialTextures, <<2, 1>>, 4, face_buffer_format))
    /\ front_face_pass.clear_color = <<0, 0, 0, 1>>

\* C15: for the Composite Pass of every state and every width and height,
\* resize replaces the multisample buffer, if there is one, by a new one of
\* that width and height with the same sample count and format, and leaves
\* every other field as it was: the bound entry and exit textures, the
\* volume and transfer-function bindings, the uniforms and the pipeline.
C15_CompositeResizeEffect ==
    \A width \in Dims, height \in Dims :
        LET resized == CanvasPassResize(canvas_pass, next_tex + 4, width, height)
        IN  /\ \A f \in DOMAIN canvas_pass \ {"multisample_buffer"} :
                   resized[f] = canvas_pass[f]
            /\ DOMAIN resized.multisample_buffer = DOMAIN canvas_pass.multisample_buffer
            /\ \A i \in DOMAIN canvas_pass.multisample_buffer :
                   /\ resized.multisample_buffer[i].width = width
                   /\ resized.multisample_buffer[i].height = height
                   /\ resized.multisample_buffer[i].sample_count =
                          canvas_pass.multisample_buffer[i].sample_count
                   /\ resized.multisample_buffer[i].format =
                          canvas_pass.multisample_buffer[i].format
                   /\ resized.multisample_buffer[i].id #
                          canvas_pass.multisample_buffer[i].id

C15_Witness ==
    /\ next_tex = InitialTextures + TexturesPerResize
    /\ size = <<1, 2>>
    /\ canvas_pass.multisample_buffer =
           Some(CreateRenderBuffer(InitialTextures + 4, <<1, 2>>, 4, preferred_format))
    /\ canvas_pass.volume_bind_group.id = 1
    /\ canvas_pass.uniforms = CanvasShaderUniformsDefault

\* a texture without the identity of its allocation
Shape(tex) == [f \in DOMAIN tex \ {"id"} |-> tex[f]]

\* an optional texture without the identity of its allocation
ShapeOfOption(option) == [i \in DOMAIN option |-> Shape(option[i])]

\* what can be observed of a render state: dimensions, sample counts,
\* formats, presence of the multisample buffers, pipelines, uniforms, and
\* which textures are bound
Observable(rs) ==
    [size |-> rs.size,
     surface |-> rs.surface,
     surface_configs |-> rs.surface_configs,
     camera |-> rs.camera,
     front_face_render_buffer |-> Shape(rs.front_face_render_buffer),
     back_face_render_buffer |-> Shape(rs.back_face_render_buffer),
     front_face_pass |->
         [rs.front_face_pass EXCEPT
             !.depth_texture = Shape(@), !.multisample_buffer = ShapeOfOption(@)],
     back_face_pass |->
         [rs.back_face_pass EXCEPT
             !.depth_texture = Shape(@), !.multisample_buffer = ShapeOfOption(@)],
     canvas_pass |->
         [rs.canvas_pass EXCEPT
             !.multisample_buffer = ShapeOfOption(@),
             !.face_texture_bind_group =
                 [front |-> Shape(@.front), back |-> Shape(@.back)]],
     entry_bound |->
         rs.canvas_pass.face_texture_bind_group.front = rs.front_face_render_buffer,
     exit_bound |->
         rs.canvas_pass.face_texture_bind_group.back = rs.back_face_render_buffer]

\* C16: from every state and for every size, App::resize called twice in a
\* row with that size leaves the same observable state as App::resize
\* called once with it: the same dimensions, sample counts, formats,
\* multisample buffers present, pipelines, uniforms and bindings.
C16_ResizeIdempotent ==
    \A new_size \in Sizes :
        Observable(AppResize(AppResize(RS, new_size), new_size)) =
            Observable(AppResize(RS, new_size))

\* the state after two resize events, the second with the size the first
\* had set, in which only the allocations differ from those of the first
C16_Witness ==
    /\ next_tex = InitialTextures + 2 * TexturesPerResize
    /\ size = <<1, 2>>
    /\ sample_count = 4
    /\ frame = NoFrame
    /\ Observable(RS) =
           Observable(AppResize(RenderStateNew(<<2, 2>>, 4), <<1, 2>>))
    /\ front_face_render_buffer.id = InitialTextures + TexturesPerResize + 5

\* every index of the mesh is the index of one of its vertices
IndicesInRange(vertices, indices) ==
    \A i \in DOMAIN indices : indices[i] \in 0..(Len(vertices) - 1)

\* a mesh of so many vertices and so many indices, all of vertices of it
MeshCounts(mesh, num_vertices, num_indices) ==
    /\ Len(mesh.vertices) = num_vertices
    /\ Len(mesh.indices) = num_indices
    /\ IndicesInRange(mesh.vertices, mesh.indices)

\* C17: the cube mesh has 8 vertices and 36 indices, three for each of 12
\* triangles, every index in 0..7; the quad has 4 vertices and 6 indices,
\* every index in 0..3; the buffers of each pass hold its mesh, and each
\* pass of a rendered frame draws as many indices as its mesh has.
C17_MeshCounts ==
    /\ MeshCounts(create_cube_fbo, 8, 36)
    /\ Len(create_cube_fbo.indices) = 3 * 12
    /\ MeshCounts(RectangleNew, 4, 6)
    /\ MeshCounts(new_standard_rectangle, 4, 6)
    /\ \A pass \in {front_face_pass, back_face_pass} :
           /\ pass.vertex_buffer = create_cube_fbo.vertices
           /\ pass.index_buffer = create_cube_fbo.indices
           /\ pass.num_depth_indices = Len(create_cube_fbo.indices)
    /\ canvas_pass.vertex_buffer = new_standard_rectangle.vertices
    /\ canvas_pass.index_buffer = new_standard_rectangle.indices
    /\ canvas_pass.num_depth_indices = Len(new_standard_rectangle.indices)
    /\ frame.acquire = "Ok" =>
           /\ Submitted[1].draw_indexed = 36
           /\ Submitted[2].draw_indexed = 36
           /\ Submitted[3].draw_indexed = 6
           /\ \A i \in DOMAIN Submitted :
                  /\ Submitted[i].draw_indexed = Len(Submitted[i].index_buffer)
                  /\ IndicesInRange(Submitted[i].vertex_buffer,
                                    Submitted[i].index_buffer)

C17_Witness ==
    /\ frame.acquire = "Ok"
    /\ next_tex > InitialTextures
    /\ Len(Submitted[1].vertex_buffer) = 8
    /\ Submitted[2].draw_indexed = 36
    /\ Len(Submitted[3].vertex_buffer) = 4
    /\ Submitted[3].draw_indexed = 6

\* C18, as claimed: the attribute of each of the 8 vertices in the vertex
\* buffer of a Face Pass is the position of that vertex.
C18_AttributeIsPosition ==
    \A pass \in {front_face_pass, back_face_pass} :
        /\ Len(pass.vertex_buffer) = 8
        /\ \A i \in DOMAIN pass.vertex_buffer :
               pass.vertex_buffer[i].attrib = pass.vertex_buffer[i].position

\* the corners of the unit volume, from (0, 0, 0) to (1, 1, 1)
VolumeCorners == {0, side} \X {0, side} \X {0, side}

\* C18, as the code has it: the attribute of each of the 8 vertices in the
\* vertex buffer of a Face Pass is the vertex's place in the unit volume,
\* (x + 0.5, y + 0.5, 2 z - 0.5) for the stored position (x, y, z), which
\* is the position create_cube_fbo gives the vertex, in -0.5..0.5, moved by
\* 0.5 along each axis; the 8 attributes are the 8 corners of the unit
\* volume, and no vertex has its position as its attribute.
C18_AttributeIsVolumeCoordinate ==
    \A pass \in {front_face_pass, back_face_pass} :
        /\ Len(pass.vertex_buffer) = 8
        /\ \A i \in DOMAIN pass.vertex_buffer :
               LET vertex == pass.vertex_buffer[i]
               IN  /\ vertex.attrib[1] = vertex.position[1] + side2
                   /\ vertex.attrib[2] = vertex.position[2] + side2
                   /\ vertex.attrib[3] = 2 * vertex.position[3] - side2
                   /\ vertex.attrib = <<CubeVertices[i][1] + side2,
                                        CubeVertices[i][2] + side2,
                                        CubeVertices[i][3] + side2>>
                   /\ vertex.attrib # vertex.position
        /\ {pass.vertex_buffer[i].attrib : i \in DOMAIN pass.vertex_buffer}
               = VolumeCorners

C18_Witness ==
    /\ frame.acquire = "Ok"
    /\ Submitted[1].vertex_buffer[1] =
           [position |-> <<-side2, -side2, side2 + 1>>, attrib |-> <<0, 0, side>>]
    /\ Submitted[2].vertex_buffer[7] =
           [position |-> <<side2, side2, 1>>, attrib |-> <<side, side, 0>>]
    /\ Submitted[2].vertex_buffer = back_face_pass.vertex_buffer

(***************************************************************************)
(* The composite shader's march of one ray (one pixel of the Composite     *)
(* Pass).  Coordinates and distances are in units of 1/Res; colors, alphas *)
(* and the opacity threshold are in units of 1/Scale, and one color        *)
(* channel stands for the three, which are computed alike.                 *)
(***************************************************************************)
\* coordinates are multiples of 1/Res
Res == 2
\* step sizes are drawn from 1..MaxStep
MaxStep == 2
\* densities are drawn from 0..MaxDensity
MaxDensity == 1

\* 1.0 as a color, an alpha or a threshold: every product of the march is exact
Scale == 20 * 2 ^ (2 * Res + 1)

Mul(x, y) == (x * y) \div Scale

Points == {<<0, 0, 0>>, <<Res, 0, 0>>, <<Res, Res, 0>>}
Densities == 0..MaxDensity
Alphas == {0, Scale \div 2, Scale}
Colors == {0, Scale}
\* the factor the shading term modulates a sample's color with
Lights == {Scale \div 2, Scale}
Thresholds == {0, Scale \div 2, (19 * Scale) \div 20, Scale}
BaseDistances == {-1, 0, 1}
TransferFunctions == [Densities -> [c : Colors, a : Alphas]]

\* what a Face Pass leaves in a pixel the cube does not cover: the rgb of the
\* color it clears its target to
ClearedPixel(pass) ==
    <<pass.clear_color[1] * Res, pass.clear_color[2] * Res, pass.clear_color[3] * Res>>

Sentinel == <<0, 0, 0>>

\* |exit - entry| squared
RayLengthSq(p) ==
    (p.exit[1] - p.entry[1]) ^ 2 + (p.exit[2] - p.entry[2]) ^ 2
        + (p.exit[3] - p.entry[3]) ^ 2

\* step 1: the ray misses the volume
IsMiss(p) == p.entry = Sentinel /\ p.exit = Sentinel

\* traveled < ray_length
InsideRay(p, traveled) == traveled < 0 \/ traveled ^ 2 < RayLengthSq(p)

\* step 4: the loop condition
LoopCondition(p) ==
    /\ InsideRay(p, p.traveled)
    /\ p.accumulated_alpha < p.uniforms.opacity_threshold

\* CompositeColor without the weight of the sample's own alpha
CompositeColorUnweighted(accumulated_color, accumulated_alpha, sample_color, sample_alpha) ==
    accumulated_color + Mul(Scale - accumulated_alpha, sample_color)

\* step 4e: front-to-back compositing of one sample
CompositeColor(accumulated_color, accumulated_alpha, sample_color, sample_alpha) ==
    accumulated_color + Mul(Mul(Scale - accumulated_alpha, sample_alpha), sample_color)

CompositeAlpha(accumulated_alpha, sample_alpha) ==
    accumulated_alpha + Mul(Scale - accumulated_alpha, sample_alpha)

\* step 5: clamped to [0, 1]
Clamp(x) == IF x < 0 THEN 0 ELSE IF x > Scale THEN Scale ELSE x

\* a pixel before its fragment is shaded
NewPixel(covered, entry, exit, uniforms, tf) ==
    [pc |-> "start", covered |-> covered, entry |-> entry, exit |-> exit,
     uniforms |-> uniforms, tf |-> tf,
     traveled |-> 0, accumulated_color |-> 0, accumulated_alpha |-> 0,
     samples |-> 0, out |-> <<0, 0>>,
     extra |-> 0, extra_traveled |-> 0, extra_color |-> 0, extra_alpha |-> 0]

InitMarch ==
    /\ InitApp(<<1, 1>>, 4)
    /\ loader = LoaderIdle
    /\ \E covered \in BOOLEAN, entry \in Points, exit \in Points,
          step_size \in 1..MaxStep, base_distance \in BaseDistances,
          opacity_threshold \in Thresholds, tf \in TransferFunctions :
           /\ ~covered => (entry = Sentinel /\ exit = Sentinel)
           /\ px = NewPixel(covered,
                            IF covered THEN entry ELSE ClearedPixel(front_face_pass),
                            IF covered THEN exit ELSE ClearedPixel(back_face_pass),
                            [step_size |-> step_size,
                             base_distance |-> base_distance,
                             opacity_threshold |-> opacity_threshold],
                            tf)

\* steps 1 to 3
MarchStart ==
    /\ px.pc = "start"
    /\ px' = IF IsMiss(px)
             THEN [px EXCEPT !.pc = "done", !.out = <<0, 0>>]
             ELSE [px EXCEPT !.pc = "march", !.traveled = px.uniforms.base_distance]
    /\ UNCHANGED <<appVars, loader>>

\* MarchSample that leaves traveled where it was
MarchSampleStalls ==
    /\ px.pc = "march"
    /\ LoopCondition(px)
    /\ \E density \in Densities, light \in Lights :
           LET sample_alpha == px.tf[density].a
               sample_color == Mul(px.tf[density].c, light)
           IN  px' = [px EXCEPT
                        !.accumulated_color =
                            CompositeColor(px.accumulated_color, px.accumulated_alpha,
                                           sample_color, sample_alpha),
                        !.accumulated_alpha =
                            CompositeAlpha(px.accumulated_alpha, sample_alpha),
                        !.samples = px.samples + 1]
    /\ UNCHANGED <<appVars, loader>>

\* steps 4a to 4f: one iteration of the loop
MarchSample ==
    /\ px.pc = "march"
    /\ LoopCondition(px)
    /\ \E density \in Densities, light \in Lights :
           LET sample_alpha == px.tf[density].a
               sample_color == Mul(px.tf[density].c, light)
           IN  px' = [px EXCEPT
                        !.accumulated_color =
                            CompositeColor(px.accumulated_color, px.accumulated_alpha,
                                           sample_color, sample_alpha),
                        !.accumulated_alpha =
                            CompositeAlpha(px.accumulated_alpha, sample_alpha),
                        !.traveled = px.traveled + px.uniforms.step_size,
                        !.samples = px.samples + 1]
    /\ UNCHANGED <<appVars, loader>>

\* step 5: the loop has ended
MarchOutput ==
    /\ px.pc = "march"
    /\ ~LoopCondition(px)
    /\ px' = [px EXCEPT !.pc = "done",
                        !.out = <<Clamp(px.accumulated_color), Clamp(px.accumulated_alpha)>>,
                        !.extra_traveled = px.traveled,
                        !.extra_color = px.accumulated_color,
                        !.extra_alpha = px.accumulated_alpha]
    /\ UNCHANGED <<appVars, loader>>

\* the loop ended because the accumulated alpha reached the threshold
Saturated(p) ==
    /\ p.pc = "done"
    /\ ~IsMiss(p)
    /\ p.accumulated_alpha >= p.uniforms.opacity_threshold

\* one more sample along the same ray after the loop has ended by saturation:
\* the march with a cap of px.extra + 1 extra steps
MarchExtraSample ==
    /\ Saturated(px)
    /\ InsideRay(px, px.extra_traveled)
    /\ \E density \in Densities, light \in Lights :
           LET sample_alpha == px.tf[density].a
               sample_color == Mul(px.tf[density].c, light)
           IN  px' = [px EXCEPT
                        !.extra_color =
                            CompositeColor(px.extra_color, px.extra_alpha,
                                           sample_color, sample_alpha),
                        !.extra_alpha = CompositeAlpha(px.extra_alpha, sample_alpha),
                        !.extra_traveled = px.extra_traveled + px.uniforms.step_size,
                        !.extra = px.extra + 1]
    /\ UNCHANGED <<appVars, loader>>

NextMarch ==
    \/ MarchStart
    \/ MarchSample
    \/ MarchOutput
    \/ MarchExtraSample

SpecMarch == InitMarch /\ [][NextMarch]_vars

(***************************************************************************)
(* Properties of the ray march.                                            *)
(***************************************************************************)
\* C6: a pixel the cube does not cover holds the sentinel in the entry and
\* in the exit texture, and for every pixel whose entry and exit are both
\* the sentinel (0,0,0) the march takes no sample and the output has color
\* 0 and alpha 0, whatever the transfer function and the uniforms are.
C6_MissIsTransparent ==
    /\ ~px.covered => (px.entry = <<0, 0, 0>> /\ px.exit = <<0, 0, 0>>)
    /\ (px.entry = <<0, 0, 0>> /\ px.exit = <<0, 0, 0>>) =>
           /\ px.samples = 0
           /\ px.extra = 0
           /\ px.accumulated_color = 0
           /\ px.accumulated_alpha = 0
           /\ px.out = <<0, 0>>
           /\ px.pc \in {"start", "done"}

C6_Witness ==
    /\ px.pc = "done"
    /\ ~px.covered
    /\ px.entry = <<0, 0, 0>>
    /\ px.exit = <<0, 0, 0>>
    /\ px.uniforms.base_distance < 0
    /\ px.uniforms.opacity_threshold = Scale
    /\ \A d \in Densities : px.tf[d] = [c |-> Scale, a |-> Scale]
    /\ px.out = <<0, 0>>

\* C7: after the loop has ended because the accumulated alpha reached the
\* threshold, the output of the march that takes px.extra further samples
\* is the output of the march that takes none.
C7_ExtraSamplesChangeNothing ==
    Saturated(px) =>
        /\ Clamp(px.extra_color) = px.out[1]
        /\ Clamp(px.extra_alpha) = px.out[2]

\* the first sample of the ray can be taken
FirstSampleInsideRay(p) == InsideRay(p, p.uniforms.base_distance)

\* C8: with opacity_threshold = 0 the march of a covered pixel ends after
\* exactly one sample, and its output is that sample's alpha times its
\* color, with that sample's alpha.
C8_ZeroThresholdTakesOneSample ==
    (/\ px.pc = "done"
     /\ px.covered
     /\ ~(px.entry = <<0, 0, 0>> /\ px.exit = <<0, 0, 0>>)
     /\ FirstSampleInsideRay(px)
     /\ px.uniforms.opacity_threshold = 0) =>
        /\ px.samples = 1
        /\ \E d \in Densities, light \in Lights :
               px.out = <<Mul(px.tf[d].a, Mul(px.tf[d].c, light)), px.tf[d].a>>

\* every entry of the transfer function has alpha 0
TransferFunctionTransparent(p) == \A d \in Densities : p.tf[d].a = 0

\* C9: when every entry of the transfer function has alpha 0, the
\* accumulated color and alpha are 0 after any number of samples and the
\* output is fully transparent.
C9_TransparentTransferFunction ==
    TransferFunctionTransparent(px) =>
        /\ px.accumulated_color = 0
        /\ px.accumulated_alpha = 0
        /\ px.extra_color = 0
        /\ px.extra_alpha = 0
        /\ px.out = <<0, 0>>

C9_Witness ==
    /\ px.pc = "done"
    /\ TransferFunctionTransparent(px)
    /\ \E d \in Densities : px.tf[d].c = Scale
    /\ px.samples >= 2
    /\ px.out = <<0, 0>>

(***************************************************************************)
(* utils.rs and shading.rs: the transfer function and its lookup texture.  *)
(* A channel of a control point is in hundredths; a value read from the    *)
(* texture is in units of 1/25500, so that both a hundredth (255 units)    *)
(* and a step of an 8-bit channel (100 units) are whole.                   *)
(***************************************************************************)
\* a sample position is a multiple of 1/(2 * HalfSubTexel) of a texel
HalfSubTexel == 5

SubTexel == 2 * HalfSubTexel

u8_MAX == 255

\* the static TF of load_example_transfer_function, in hundredths
TF ==
    <<<<0, 0, 0, 0>>,
      <<0, 50, 50, 1>>,
      <<0, 50, 50, 1>>,
      <<0, 50, 50, 0>>,
      <<50, 50, 0, 0>>,
      <<50, 50, 0, 20>>,
      <<50, 50, 0, 50>>,
      <<50, 50, 0, 20>>,
      <<50, 50, 0, 0>>,
      <<0, 0, 0, 0>>,
      <<100, 0, 100, 0>>,
      <<100, 0, 100, 80>>>>

\* (v * 255.0) as u8 of a channel v: the fraction is cut off
AsU8(hundredths) ==
    LET q == (hundredths * u8_MAX) \div 100
    IN  IF q < 0 THEN 0 ELSE IF q > u8_MAX THEN u8_MAX ELSE q

load_example_transfer_function ==
    [i \in DOMAIN TF |-> [c \in 1..4 |-> AsU8(TF[i][c])]]

\* Tex::create_1d_texture_rgba8: the texture, its texels being flatten_data,
\* and the sampler
Create1dTextureRgba8(data) ==
    [format |-> "Rgba8UnormSrgb",
     width |-> Len(data),
     height |-> 1,
     sample_count |-> 1,
     texels |-> [k \in 1..(4 * Len(data)) |-> data[((k - 1) \div 4) + 1][((k - 1) % 4) + 1]],
     address_mode_u |-> "ClampToEdge",
     mag_filter |-> "Linear",
     min_filter |-> "Nearest"]

\* what a shader reads from an 8-bit channel of an sRGB format that stores
\* b: the linear value of the sRGB-encoded b / 255, in units of 1/25500
SrgbToLinear ==
    <<0, 8, 15, 23, 31, 39, 46, 54, 62, 70, 77, 85,
      94, 103, 112, 122, 132, 143, 154, 166, 178, 191, 205, 218,
      233, 248, 263, 279, 296, 313, 331, 349, 368, 388, 408, 429,
      450, 472, 494, 517, 541, 565, 590, 616, 642, 669, 697, 725,
      754, 783, 813, 844, 876, 908, 941, 974, 1008, 1043, 1079, 1115,
      1152, 1190, 1228, 1268, 1307, 1348, 1389, 1431, 1474, 1518, 1562, 1607,
      1652, 1699, 1746, 1794, 1843, 1892, 1943, 1994, 2046, 2098, 2152, 2206,
      2261, 2316, 2373, 2430, 2488, 2547, 2607, 2668, 2729, 2791, 2854, 2918,
      2983, 3048, 3115, 3182, 3250, 3318, 3388, 3459, 3530, 3602, 3675, 3749,
      3824, 3900, 3976, 4054, 4132, 4211, 4291, 4372, 4454, 4536, 4620, 4704,
      4789, 4876, 4963, 5051, 5140, 5230, 5320, 5412, 5504, 5598, 5692, 5788,
      5884, 5981, 6079, 6178, 6278, 6379, 6481, 6584, 6687, 6792, 6898, 7004,
      7112, 7220, 7330, 7440, 7552, 7664, 7777, 7891, 8007, 8123, 8240, 8358,
      8478, 8598, 8719, 8841, 8964, 9088, 9213, 9339, 9467, 9595, 9724, 9854,
      9985, 10117, 10250, 10385, 10520, 10656, 10793, 10932, 11071, 11211, 11353, 11495,
      11638, 11783, 11928, 12075, 12223, 12371, 12521, 12672, 12824, 12976, 13130, 13285,
      13441, 13599, 13757, 13916, 14076, 14238, 14400, 14564, 14728, 14894, 15061, 15229,
      15398, 15568, 15739, 15911, 16084, 16259, 16434, 16611, 16789, 16967, 17147, 17328,
      17510, 17694, 17878, 18064, 18250, 18438, 18627, 18817, 19008, 19200, 19393, 19588,
      19783, 19980, 20178, 20377, 20577, 20779, 20981, 21185, 21389, 21595, 21802, 22011,
      22220, 22430, 22642, 22855, 23069, 23284, 23500, 23718, 23936, 24156, 24377, 24599,
      24823, 25047, 25273, 25500>>

\* channel c of texel i (from 0) as a shader reads it: the color channels
\* of an Srgb format are decoded, the alpha channel is b / 255
TexelValue(tex, i, c) ==
    LET b == tex.texels[4 * i + c]
    IN  IF tex.format = "Rgba8UnormSrgb" /\ c < 4
        THEN SrgbToLinear[b + 1]
        ELSE 100 * b

\* AddressMode::ClampToEdge
ClampToEdge(tex, i) ==
    IF i < 0 THEN 0 ELSE IF i > tex.width - 1 THEN tex.width - 1 ELSE i

\* the texel at position / SubTexel texels from the left edge
SampleNearest(tex, position) ==
    [c \in 1..4 |-> TexelValue(tex, ClampToEdge(tex, position \div SubTexel), c)]

\* the two texels whose centers are next to the position, weighted by
\* their nearness
SampleLinear(tex, position) ==
    LET halves == 2 * position - SubTexel
        left == halves \div (2 * SubTexel)
        weight == halves % (2 * SubTexel)
    IN  [c \in 1..4 |->
            ((2 * SubTexel - weight) * TexelValue(tex, ClampToEdge(tex, left), c)
                + weight * TexelValue(tex, ClampToEdge(tex, left + 1), c))
                \div (2 * SubTexel)]

\* the sampler filters with min_filter or with mag_filter
Sample(tex, position, filter) ==
    IF filter = "Linear"
    THEN SampleLinear(tex, position)
    ELSE SampleNearest(tex, position)

\* the position of the center of the texel of control point i (from 1)
ControlPointPosition(i) == SubTexel * (i - 1) + HalfSubTexel

InitTransfer ==
    /\ InitApp(<<1, 1>>, 4)
    /\ px = PxIdle
    /\ loader = [pc |-> "tf_start"]

LoadExampleTransferFunction ==
    /\ loader.pc = "tf_start"
    /\ loader' = [pc |-> "tf_values", data |-> load_example_transfer_function]
    /\ UNCHANGED <<appVars, px>>

\* CanvasPass::new creates the texture of the values
CreateTransferFunctionTexture ==
    /\ loader.pc = "tf_values"
    /\ loader' = [pc |-> "tf_texture", tex |-> Create1dTextureRgba8(loader.data)]
    /\ UNCHANGED <<appVars, px>>

\* the shader samples the texture
SampleTransferFunction ==
    /\ loader.pc \in {"tf_texture", "tf_sampled"}
    /\ \E position \in 0..(loader.tex.width * SubTexel),
          filter \in {loader.tex.min_filter, loader.tex.mag_filter} :
           loader' = [pc |-> "tf_sampled", tex |-> loader.tex,
                      position |-> position, filter |-> filter,
                      rgba |-> Sample(loader.tex, position, filter)]
    /\ UNCHANGED <<appVars, px>>

NextTransfer ==
    \/ LoadExampleTransferFunction
    \/ CreateTransferFunctionTexture
    \/ SampleTransferFunction

SpecTransfer == InitTransfer /\ [][NextTransfer]_vars

\* |a - b|
Distance(a, b) == IF a < b THEN b - a ELSE a - b

\* C19: the texture has one texel of four 8-bit channels for each control
\* point, and a sample taken at the position of a control point is within
\* 1/255 of the control point's color in each of the four channels.
C19_LutReproducesControlPoints ==
    loader.pc = "tf_sampled" =>
        /\ loader.tex.width = Len(TF)
        /\ \A i \in DOMAIN TF :
               loader.position = ControlPointPosition(i) =>
                   \A c \in 1..4 :
                       Distance(loader.rgba[c], u8_MAX * TF[i][c]) <= 100

(***************************************************************************)
(* utils.rs: load_volume_data.  A file is a sequence of bytes; a usize is  *)
(* the sequence of its bytes, the lowest first, as long as the build's     *)
(* usize is wide.                                                          *)
(***************************************************************************)
\* the dimensions a header holds are 0..MaxHeader or one of BigDimensions
MaxHeader == 2

\* a file holds up to MaxSamples values after three values of header
MaxSamples == 4

u16_MAX == 65535

BigDimensions == {256, 4096}

SampleValues == {0, 4095, 4096, u16_MAX}

\* the bytes of a file of 16-bit values, the lower byte of a value first,
\* and one more byte if the file has an odd length
FileBytes(values, odd) ==
    [k \in 1..(2 * Len(values) + (IF odd THEN 1 ELSE 0)) |->
        IF k > 2 * Len(values) THEN 0
        ELSE IF k % 2 = 1 THEN values[(k + 1) \div 2] % 256
        ELSE values[k \div 2] \div 256]

\* u16::from_ne_bytes([b0, b1]) on a machine of the given endianness
FromNeBytes(b0, b1, endian) ==
    IF endian = "little" THEN b0 + 256 * b1 ELSE 256 * b0 + b1

\* bytes.par_chunks_exact(2).map(from_ne_bytes): a last odd byte is left out
UnsignedShorts(bytes, endian) ==
    [k \in 1..(Len(bytes) \div 2) |-> FromNeBytes(bytes[2 * k - 1], bytes[2 * k], endian)]

\* n as usize, for n < 2^24
ToUsize(n, usize_bits) ==
    [k \in 1..(usize_bits \div 8) |->
        IF k = 1 THEN n % 256
        ELSE IF k = 2 THEN (n \div 256) % 256
        ELSE IF k = 3 THEN n \div (256 * 256)
        ELSE 0]

RECURSIVE UsizeMulFrom(_, _, _, _)
\* the bytes of a * v from the k-th on, carry being what the lower bytes
\* carried, followed by what the highest byte carries
UsizeMulFrom(a, v, k, carry) ==
    IF k > Len(a)
    THEN <<carry>>
    ELSE LET t == a[k] * v + carry
         IN  <<t % 256>> \o UsizeMulFrom(a, v, k + 1, t \div 256)

\* a * (v as usize) for a 16-bit v: the wrapped product, and whether the
\* product overflowed the usize
UsizeMul(a, v) ==
    LET r == UsizeMulFrom(a, v, 1, 0)
    IN  [value |-> SubSeq(r, 1, Len(a)), overflow |-> r[Len(a) + 1] # 0]

\* Normalized with the shift made in a wider integer
NormalizedWide(num) == Div(num * 16, u16_MAX)

\* ((num << 4) as f32) / U16MAX_F: the shift is a shift of a u16
Normalized(num) == Div((num * 16) % (u16_MAX + 1), u16_MAX)

Panicked(message) == [pc |-> "panicked", message |-> message]

\* load_volume_data on a build with usize_bits wide usize that does or
\* does not check arithmetic for overflow; file is None if it cannot be read
LoadVolumeData(file, endian, usize_bits, overflow_checks) ==
    IF file = None
    THEN Panicked("Error when reading file")
    ELSE LET unsigned_shorts == UnsignedShorts(file[1], endian)
         IN  IF Len(unsigned_shorts) < 3
             THEN Panicked("called Option::unwrap() on a None value")
             ELSE LET x == unsigned_shorts[1]
                      y == unsigned_shorts[2]
                      z == unsigned_shorts[3]
                      xy == UsizeMul(ToUsize(x, usize_bits), y)
                      expected_data_num == UsizeMul(xy.value, z)
                      data == [k \in 1..(Len(unsigned_shorts) - 3) |->
                                  Normalized(unsigned_shorts[k + 3])]
                      uint_data == SubSeq(unsigned_shorts, 4, Len(unsigned_shorts))
                  IN  IF overflow_checks /\ (xy.overflow \/ expected_data_num.overflow)
                      THEN Panicked("attempt to multiply with overflow")
                      ELSE IF expected_data_num.value # ToUsize(Len(data), usize_bits)
                      THEN Panicked("Data size not match")
                      ELSE [pc |-> "returned", dims |-> <<x, y, z>>,
                            data |-> data, uint_data |-> uint_data]

\* a file of up to three values of header and samples of one value, or no
\* file, on one of the builds of the native loader
InitVolume ==
    /\ InitApp(<<1, 1>>, 4)
    /\ px = PxIdle
    /\ \E header \in [1..3 -> (0..MaxHeader) \cup BigDimensions],
          num \in 0..(3 + MaxSamples),
          sample \in SampleValues,
          odd \in BOOLEAN,
          readable \in BOOLEAN,
          endian \in {"little", "big"},
          usize_bits \in {32, 64},
          overflow_checks \in BOOLEAN :
           LET values == [k \in 1..num |-> IF k <= 3 THEN header[k] ELSE sample]
           IN  loader = [pc |-> "file",
                         input |-> [file |-> IF readable
                                             THEN Some(FileBytes(values, odd))
                                             ELSE None,
                                    endian |-> endian,
                                    usize_bits |-> usize_bits,
                                    overflow_checks |-> overflow_checks]]

LoadVolumeDataStep ==
    /\ loader.pc = "file"
    /\ LET result == LoadVolumeData(loader.input.file, loader.input.endian,
                                    loader.input.usize_bits, loader.input.overflow_checks)
       IN  loader' = [pc |-> result.pc, input |-> loader.input, result |-> result]
    /\ UNCHANGED <<appVars, px>>

\* RenderState::new makes the extent of the volume texture of the
\* dimensions, and the texture of the data
CreateVolumeTexture ==
    /\ loader.pc = "returned"
    /\ loader' = [pc |-> "volume_texture", input |-> loader.input,
                  result |-> loader.result,
                  extent |-> [width |-> loader.result.dims[1],
                              height |-> loader.result.dims[2],
                              depth_or_array_layers |-> loader.result.dims[3]],
                  data_f16_len |-> Len(loader.result.data)]
    /\ UNCHANGED <<appVars, px>>

NextVolume ==
    \/ LoadVolumeDataStep
    \/ CreateVolumeTexture

SpecVolume == InitVolume /\ [][NextVolume]_vars

\* x * y * z = count, for a small count
ProductIs(x, y, z, count) ==
    IF x = 0 \/ y = 0 \/ z = 0
    THEN count = 0
    ELSE x <= count /\ y <= count /\ z <= count /\ x * y * z = count

\* the file of a run of the loader cannot be read, holds fewer than three
\* 16-bit values, or holds a number of samples that is not x * y * z
Malformed(input) ==
    \/ input.file = None
    \/ LET values == UnsignedShorts(input.file[1], input.endian)
       IN  \/ Len(values) < 3
           \/ ~ProductIs(values[1], values[2], values[3], Len(values) - 3)

\* C20: a run of the volume loader on a file with fewer than three 16-bit
\* values, or whose number of samples after the header differs from
\* x * y * z, fails and no volume texture is made of it; a run that returns
\* returns the header as dimensions and x * y * z samples.
C20_MalformedVolumeFails ==
    loader.pc \in {"panicked", "returned", "volume_texture"} =>
        /\ Malformed(loader.input) => loader.pc = "panicked"
        /\ loader.pc # "panicked" =>
               /\ loader.result.dims = SubSeq(UnsignedShorts(loader.input.file[1], loader.input.endian), 1, 3)
               /\ ProductIs(loader.result.dims[1], loader.result.dims[2],
                            loader.result.dims[3], Len(loader.result.data))
               /\ Len(loader.result.uint_data) = Len(loader.result.data)

\* a 1 x 1 x 1 volume whose one sample is any 16-bit value
InitSamples ==
    /\ InitApp(<<1, 1>>, 4)
    /\ px = PxIdle
    /\ \E b0 \in 0..u8_MAX, b1 \in 0..u8_MAX :
           loader = [pc |-> "file",
                     input |-> [file |-> Some(FileBytes(<<1, 1, 1>>, FALSE) \o <<b0, b1>>),
                                endian |-> "little",
                                usize_bits |-> 64,
                                overflow_checks |-> FALSE]]

SpecSamples == InitSamples /\ [][NextVolume]_vars

\* C21: every density the loader returns is a fraction between 0 and 1;
\* it is the lower 12 bits of its sample, shifted left by 4, over 65535,
\* which for a sample of at most 4095 is 16 times the sample over 65535.
C21_DensityInUnitInterval ==
    loader.pc \in {"returned", "volume_texture"} =>
        \A k \in DOMAIN loader.result.data :
            LET n == loader.result.uint_data[k]
                density == loader.result.data[k]
            IN  /\ 0 <= density[1]
                /\ density[1] <= density[2]
                /\ density = Div(16 * (n % 4096), u16_MAX)
                /\ n <= 4095 => density = Div(16 * n, u16_MAX)

\* a sample that uses the bit above the lower 12 bits is loaded as density 0
C21_Witness ==
    /\ loader.pc = "returned"
    /\ loader.result.uint_data = <<4096>>
    /\ loader.result.data = <<Div(0, u16_MAX)>>

(***************************************************************************)
(* More properties of the event handlers.                                  *)
(***************************************************************************)
\* the passes, buffers and camera a frame is rendered from
RenderInputs(rs) ==
    <<rs.camera, rs.front_face_pass, rs.front_face_render_buffer,
      rs.back_face_pass, rs.back_face_render_buffer, rs.canvas_pass, rs.surface>>

UniformChoices ==
    [step_size : {Div(25, 10000), Div(1, 100)},
     base_distance : {Div(25, 10000), Div(0, 1)},
     opacity_threshold : {Div(95, 100), Div(1, 1)},
     ambient_intensity : {Div(5, 10), Div(1, 10)},
     diffuse_intensity : {Div(5, 10)},
     specular_intensity : {Div(5, 10)},
     shininess : {Div(32, 1), Div(8, 1)}]

InitCanvas ==
    /\ \E sample_cnt \in SampleCounts : InitApp(<<1, 1>>, sample_cnt)
    /\ px = PxIdle
    /\ loader = LoaderIdle

CanvasSetUniforms ==
    /\ \E uniforms \in UniformChoices :
           canvas_pass' = SetUniforms(canvas_pass, uniforms)
    /\ frame' = NoFrame
    /\ UNCHANGED <<sample_count, size, surface_configs, surface, camera,
                   camera_controller, front_face_pass, front_face_render_buffer,
                   back_face_pass, back_face_render_buffer, next_tex, exiting,
                   px, loader>>

CanvasResize ==
    /\ next_tex <= MaxTextures
    /\ \E width \in Dims, height \in Dims :
           canvas_pass' = CanvasPassResize(canvas_pass, next_tex, width, height)
    /\ next_tex' = IF canvas_pass.multisample_buffer = None THEN next_tex ELSE next_tex + 1
    /\ frame' = NoFrame
    /\ UNCHANGED <<sample_count, size, surface_configs, surface, camera,
                   camera_controller, front_face_pass, front_face_render_buffer,
                   back_face_pass, back_face_render_buffer, exiting, px, loader>>

CanvasRender ==
    /\ LET frame_tex_view == [id |-> 0, width |-> surface.width,
                              height |-> surface.height,
                              sample_count |-> 1, format |-> surface.format]
           encoder == <<CanvasPassRender(canvas_pass, frame_tex_view)>>
       IN  frame' = [NoFrame EXCEPT !.acquire = "Ok", !.encoder = Some(encoder),
                                    !.submitted = <<encoder>>]
    /\ UNCHANGED <<sample_count, size, surface_configs, surface, camera,
                   camera_controller, front_face_pass, front_face_render_buffer,
                   back_face_pass, back_face_render_buffer, canvas_pass, next_tex,
                   exiting, px, loader>>

NextCanvas ==
    \/ CanvasSetUniforms
    \/ CanvasResize
    \/ CanvasRender

SpecCanvas == InitCanvas /\ [][NextCanvas]_vars

\* pass is old with the given uniforms stored and in its uniform buffer,
\* and with every other field as it was
OnlyUniformsSet(old, pass, uniforms) ==
    /\ pass.uniforms = uniforms
    /\ pass.uniform_buffer = uniforms
    /\ DOMAIN pass = DOMAIN old
    /\ \A f \in DOMAIN old \ {"uniforms", "uniform_buffer"} : pass[f] = old[f]

\* C23: a Composite Pass is constructed with the default uniforms, stored
\* and in its uniform buffer; they change only in a step that sets both to
\* the uniforms of a caller and leaves every other field of the pass and the
\* textures allocated as they are; and set_uniforms(u) is such a step for u.
C23_SetUniformsOnlySetsUniforms ==
    /\ canvas_pass.uniforms = CanvasShaderUniformsDefault
    /\ canvas_pass.uniform_buffer = CanvasShaderUniformsDefault
    /\ [][(canvas_pass'.uniforms # canvas_pass.uniforms
            \/ canvas_pass'.uniform_buffer # canvas_pass.uniform_buffer) =>
              /\ \E uniforms \in UniformChoices :
                     OnlyUniformsSet(canvas_pass, canvas_pass', uniforms)
              /\ next_tex' = next_tex]_vars
    /\ [](\A uniforms \in UniformChoices :
              OnlyUniformsSet(canvas_pass, SetUniforms(canvas_pass, uniforms), uniforms))

\* a pass rendered with uniforms that were set, which its buffer holds,
\* while its multisample buffer is the one it was constructed with
C23_Witness ==
    /\ canvas_pass.uniforms # CanvasShaderUniformsDefault
    /\ canvas_pass.uniform_buffer = canvas_pass.uniforms
    /\ canvas_pass.multisample_buffer # None
    /\ next_tex = InitialTextures
    /\ frame.acquire = "Ok"
    /\ frame.submitted[1][1].bind_groups[4].uniform = canvas_pass.uniforms

\* the view of the surface texture the Composite Pass renders into
FrameTexView ==
    [id |-> 0, width |-> surface.width, height |-> surface.height,
     sample_count |-> 1, format |-> surface.format]

\* the three passes of the state and the view each is given to render into
PassesAndTargets ==
    <<<<front_face_pass, front_face_render_buffer>>,
      <<back_face_pass, back_face_render_buffer>>,
      <<canvas_pass, FrameTexView>>>>

\* C24: each of the three passes of a rendered frame draws into the view it
\* was given and names no resolve target when it has no multisample buffer,
\* and draws into its multisample buffer and resolves into the view it was
\* given when it has one.
C24_AttachmentByMultisampleBuffer ==
    frame.acquire = "Ok" =>
        \A i \in 1..3 :
            LET pass == PassesAndTargets[i][1]
                target_view == PassesAndTargets[i][2]
                recorded == Submitted[i]
            IN  IF pass.multisample_buffer = None
                THEN /\ recorded.view = target_view
                     /\ recorded.resolve_target = None
                ELSE /\ recorded.view = pass.multisample_buffer[1]
                     /\ recorded.resolve_target = Some(target_view)

\* a frame rendered after a resize by passes that have multisample buffers
C24_Witness ==
    /\ frame.acquire = "Ok"
    /\ next_tex > InitialTextures
    /\ front_face_pass.multisample_buffer # None
    /\ Submitted[1].resolve_target = Some(front_face_render_buffer)
    /\ Submitted[3].view = canvas_pass.multisample_buffer[1]

\* the two Face Passes of the state
FacePasses == <<front_face_pass, back_face_pass>>

\* the render pass recorded for a Face Pass clears its color attachment to
\* clear_color and its depth attachment to the configured value
FaceClears(pass, recorded, clear_color) ==
    /\ recorded.color_load = [clear |-> clear_color]
    /\ recorded.depth_load = Some(pass.depth_clear_op)
    /\ DOMAIN pass.depth_clear_op = {"clear"}

\* C25 as claimed: each Face Pass of a rendered frame clears its color
\* attachment to (0, 0, 0, 0) and its depth attachment to the configured
\* value, and leaves (0, 0, 0) in a pixel the cube does not cover.
C25_FaceClearsTransparentBlack ==
    frame.acquire = "Ok" =>
        \A i \in 1..2 :
            /\ FaceClears(FacePasses[i], Submitted[i], <<0, 0, 0, 0>>)
            /\ ClearedPixel(FacePasses[i]) = Sentinel

\* C25: each Face Pass of a rendered frame clears its color attachment to
\* the opaque black (0, 0, 0, 1) it was constructed with and its depth
\* attachment to the configured value (1 for the entry pass, 0 for the exit
\* pass), so nothing of the frame before is loaded and a pixel the cube
\* does not cover holds the sentinel (0, 0, 0) in its color channels.
C25_FaceClearsOpaqueBlack ==
    frame.acquire = "Ok" =>
        \A i \in 1..2 :
            /\ FaceClears(FacePasses[i], Submitted[i], <<0, 0, 0, 1>>)
            /\ FacePasses[i].depth_clear_op = [clear |-> 2 - i]
            /\ ClearedPixel(FacePasses[i]) = Sentinel

\* a frame rendered after a resize and a move of the camera away
C25_Witness ==
    /\ frame.acquire = "Ok"
    /\ next_tex > InitialTextures
    /\ Submitted[1].color_load = [clear |-> front_face_pass.clear_color]
    /\ Submitted[2].color_load = [clear |-> back_face_pass.clear_color]
    /\ camera.eye.dist > InitDist

\* (width, height) of a texture
Extent(tex) == <<tex.width, tex.height>>

\* C26: in each Face Pass of a rendered frame, whatever resizes came before,
\* the color attachment and the depth attachment have the sample count of
\* the pass and the same width and height, and a resolve target, which
\* there is when the sample count is above 1, has one sample and that same
\* width and height.
C26_FaceAttachmentsAgree ==
    frame.acquire = "Ok" =>
        \A i \in 1..2 :
            LET pass == FacePasses[i]
                color == Submitted[i].view
                depth == Submitted[i].depth_view[1]
                resolve_target == Submitted[i].resolve_target
            IN  /\ color.sample_count = pass.sample_count
                /\ depth.sample_count = pass.sample_count
                /\ Extent(depth) = Extent(color)
                /\ (resolve_target # None) = (pass.sample_count > 1)
                /\ resolve_target # None =>
                       /\ resolve_target[1].sample_count = 1
                       /\ Extent(resolve_target[1]) = Extent(color)

\* a multisampled frame rendered after two resizes, the last to a size
\* that is not square
C26_Witness ==
    /\ frame.acquire = "Ok"
    /\ next_tex >= InitialTextures + 2 * TexturesPerResize
    /\ sample_count = 4
    /\ size[1] # size[2]
    /\ Extent(Submitted[2].depth_view[1]) = size
    /\ Submitted[2].resolve_target # None

\* C27: the entry and exit render buffers, which are the textures bound to
\* the Composite Pass, have one sample whatever the sample count of the
\* passes is, at construction and after every resize, as the texture
\* bindings of the Composite Pass, which are not multisampled, require.
C27_FaceBuffersSingleSample ==
    /\ front_face_render_buffer.sample_count = 1
    /\ back_face_render_buffer.sample_count = 1
    /\ \A b \in {"front", "back"} :
           /\ canvas_pass.face_texture_bind_group[b].sample_count = 1
           /\ face_texture_bind_group_layout[b].multisampled
                  = (canvas_pass.face_texture_bind_group[b].sample_count > 1)
           /\ frame.acquire = "Ok" => Submitted[3].bind_groups[1][b].sample_count = 1

\* multisampled passes whose Composite Pass has bound, after two resizes,
\* the render buffers of the second
C27_Witness ==
    /\ sample_count = 4
    /\ canvas_pass.sample_count = 4
    /\ next_tex >= InitialTextures + 2 * TexturesPerResize
    /\ canvas_pass.face_texture_bind_group.front.id = next_tex - 2
    /\ canvas_pass.face_texture_bind_group.back.id = next_tex - 1
    /\ front_face_render_buffer.sample_count = FACE_RENDER_BUFFER_SAMPLE_COUNT

(***************************************************************************)
(* The triangles a Face Pass draws: triangle t of a TriangleList is the    *)
(* indices 3t - 2, 3t - 1 and 3t of the index buffer.                      *)
(***************************************************************************)
Sub3(a, b) == <<a[1] - b[1], a[2] - b[2], a[3] - b[3]>>

Cross(a, b) ==
    <<a[2] * b[3] - a[3] * b[2], a[3] * b[1] - a[1] * b[3], a[1] * b[2] - a[2] * b[1]>>

Dot(a, b) == a[1] * b[1] + a[2] * b[2] + a[3] * b[3]

RECURSIVE SumPositions(_, _)
\* the sum of the positions of the first n vertices
SumPositions(vertices, n) ==
    IF n = 0
    THEN <<0, 0, 0>>
    ELSE LET rest == SumPositions(vertices, n - 1)
             p == vertices[n].position
         IN  <<rest[1] + p[1], rest[2] + p[2], rest[3] + p[3]>>

NumTriangles(pass) == pass.num_depth_indices \div 3

\* the indices of triangle t, in the order the index buffer lists them
TriangleIndices(pass, t) == [k \in 1..3 |-> pass.index_buffer[3 * (t - 1) + k]]

TrianglePositions(pass, t) ==
    [k \in 1..3 |-> pass.vertex_buffer[TriangleIndices(pass, t)[k] + 1].position]

\* the normal of the side from which the triangle is seen counter-clockwise
TriangleNormal(pass, t) ==
    LET tri == TrianglePositions(pass, t)
    IN  Cross(Sub3(tri[2], tri[1]), Sub3(tri[3], tri[1]))

\* the normal of triangle t points away from the center of the vertices:
\* its product with (centroid of t - center), times 3 * the number of
\* vertices, is positive
PointsOutward(pass, t) ==
    LET n == Len(pass.vertex_buffer)
        tri == TrianglePositions(pass, t)
        corners == <<tri[1][1] + tri[2][1] + tri[3][1],
                     tri[1][2] + tri[2][2] + tri[3][2],
                     tri[1][3] + tri[2][3] + tri[3][3]>>
        all == SumPositions(pass.vertex_buffer, n)
    IN  Dot(TriangleNormal(pass, t),
            <<n * corners[1] - 3 * all[1], n * corners[2] - 3 * all[2],
              n * corners[3] - 3 * all[3]>>) > 0

\* the values the vertices have on an axis: the two planes of its faces
Planes(pass, axis) ==
    {pass.vertex_buffer[i].position[axis] : i \in DOMAIN pass.vertex_buffer}

\* the triangles whose three vertices lie in the plane of a face
FaceTriangles(pass, axis, plane) ==
    {t \in 1..NumTriangles(pass) :
        \A k \in 1..3 : TrianglePositions(pass, t)[k][axis] = plane}

\* two triangles cover a face: together they have its four vertices, and
\* the two vertices they share are opposite corners of the face
CoverFace(pass, axis, t1, t2) ==
    LET i1 == {TriangleIndices(pass, t1)[k] : k \in 1..3}
        i2 == {TriangleIndices(pass, t2)[k] : k \in 1..3}
    IN  /\ Cardinality(i1 \cup i2) = 4
        /\ Cardinality(i1 \cap i2) = 2
        /\ \A v, w \in i1 \cap i2 :
               v # w =>
                   \A b \in (1..3) \ {axis} :
                       pass.vertex_buffer[v + 1].position[b]
                           # pass.vertex_buffer[w + 1].position[b]

\* the two Face Passes as App drives them, without the Composite Pass
InitFace ==
    /\ \E sz \in Sizes, sample_cnt \in SampleCounts : InitApp(sz, sample_cnt)
    /\ px = PxIdle
    /\ loader = LoaderIdle

\* the resize of both Face Passes by App::resize
FaceResize ==
    /\ next_tex + 4 <= MaxTextures + 1
    /\ \E new_size \in Sizes :
           /\ front_face_pass' =
                  D3PassResize(front_face_pass, next_tex, new_size[1], new_size[2])
           /\ back_face_pass' =
                  D3PassResize(back_face_pass, next_tex + 2, new_size[1], new_size[2])
    /\ next_tex' = next_tex + 4
    /\ frame' = NoFrame
    /\ UNCHANGED <<sample_count, size, surface_configs, surface, camera,
                   camera_controller, front_face_render_buffer,
                   back_face_render_buffer, canvas_pass, exiting, px, loader>>

\* the render of both Face Passes by App::render
FaceRender ==
    /\ LET encoder ==
               <<D3PassRender(front_face_pass, front_face_render_buffer, None),
                 D3PassRender(back_face_pass, back_face_render_buffer, None)>>
       IN  frame' = [NoFrame EXCEPT !.acquire = "Ok", !.encoder = Some(encoder),
                                    !.submitted = <<encoder>>]
    /\ UNCHANGED <<sample_count, size, surface_configs, surface, camera,
                   camera_controller, front_face_pass, front_face_render_buffer,
                   back_face_pass, back_face_render_buffer, canvas_pass, next_tex,
                   exiting, px, loader>>

NextFace ==
    \/ FaceResize
    \/ FaceRender

SpecFace == InitFace /\ [][NextFace]_vars

\* C28: both Face Passes draw 12 triangles of the cube's vertices; each
\* has a normal that is not zero and that, taken in the order of its
\* indices, points away from the center of the cube, so it is seen
\* counter-clockwise from outside, which the pipelines take as its front;
\* and each of the 6 faces holds exactly 2 triangles, which cover it.
C28_CubeWoundOutward ==
    \A i \in 1..2 :
        LET pass == FacePasses[i]
        IN  /\ NumTriangles(pass) = 12
            /\ pass.render_pipeline.front_face = "Ccw"
            /\ \A t \in 1..12 :
                   /\ TriangleNormal(pass, t) # <<0, 0, 0>>
                   /\ PointsOutward(pass, t)
                   /\ Cardinality({f \in (1..3) \X {0, 1} :
                           \E plane \in Planes(pass, f[1]) :
                               /\ t \in FaceTriangles(pass, f[1], plane)
                               /\ (f[2] = 0) = (\A q \in Planes(pass, f[1]) : plane <= q)}) = 1
            /\ \A axis \in 1..3 :
                   /\ Cardinality(Planes(pass, axis)) = 2
                   /\ \A plane \in Planes(pass, axis) :
                          /\ Cardinality(FaceTriangles(pass, axis, plane)) = 2
                          /\ \A t1, t2 \in FaceTriangles(pass, axis, plane) :
                                 t1 # t2 => CoverFace(pass, axis, t1, t2)

\* a frame, after a resize, whose entry pass draws the cube with its back
\* faces culled and whose exit pass draws it with its front faces culled
C28_Witness ==
    /\ frame.acquire = "Ok"
    /\ next_tex > InitialTextures
    /\ Submitted[1].index_buffer = CubeIndices
    /\ Submitted[1].pipeline.cull_mode = "Back"
    /\ Submitted[2].pipeline.cull_mode = "Front"
    /\ Submitted[2].draw_indexed = 36
    /\ TriangleNormal(front_face_pass, 1)[3] > 0
    /\ TriangleNormal(back_face_pass, 12)[3] < 0

(***************************************************************************)
(* The march with any step size, followed for MaxIterations iterations: a  *)
(* march that is still in its loop then is not followed further.           *)
(***************************************************************************)
\* more iterations than a march with a positive step size can take
MaxIterations == 2 * Res + 2

StepSizes == -1..MaxStep

\* the transfer functions that give every density the same alpha
UniformTransferFunctions ==
    {tf \in TransferFunctions :
        \A d \in Densities : tf[d].c = Scale /\ tf[d].a = tf[0].a}

InitMarchSteps ==
    /\ InitApp(<<1, 1>>, 4)
    /\ loader = LoaderIdle
    /\ \E entry \in Points, exit \in Points,
          step_size \in StepSizes, base_distance \in BaseDistances,
          opacity_threshold \in Thresholds, tf \in UniformTransferFunctions :
           px = NewPixel(TRUE, entry, exit,
                         [step_size |-> step_size,
                          base_distance |-> base_distance,
                          opacity_threshold |-> opacity_threshold],
                         tf)

MarchSampleCapped ==
    /\ px.samples < MaxIterations
    /\ MarchSample

NextMarchSteps ==
    \/ MarchStart
    \/ MarchSampleCapped
    \/ MarchOutput

\* a fragment shader that has started runs on
SpecMarchSteps ==
    InitMarchSteps /\ [][NextMarchSteps]_vars /\ WF_vars(NextMarchSteps)

\* C29: in the march of a covered pixel every iteration adds step_size to
\* traveled; with a positive step_size the iteration n of the loop starts
\* with traveled = base_distance + (n - 1) * step_size inside the ray, so
\* there are at most ceil((ray_length - base_distance) / step_size)
\* iterations, fewer than MaxIterations, and the march ends; with a
\* step_size of 0 or less, a transfer function that is transparent and a
\* first sample inside the ray, the march never ends.
C29_MarchTerminates ==
    /\ [](px.uniforms.step_size > 0 =>
              /\ px.samples < MaxIterations
              /\ px.samples >= 1 =>
                     InsideRay(px, px.uniforms.base_distance
                                       + (px.samples - 1) * px.uniforms.step_size))
    /\ [][px'.samples # px.samples =>
              /\ px'.samples = px.samples + 1
              /\ px'.traveled = px.traveled + px.uniforms.step_size]_vars
    /\ (px.uniforms.step_size > 0) ~> (px.pc = "done")
    /\ []((/\ px.uniforms.step_size <= 0
           /\ ~IsMiss(px)
           /\ TransferFunctionTransparent(px)
           /\ FirstSampleInsideRay(px)
           /\ px.uniforms.opacity_threshold > 0) => px.pc # "done")

\* a march that ended at the end of its ray, after as many iterations as
\* the longest ray and the smallest positive step allow
C29_Witness ==
    /\ px.pc = "done"
    /\ px.uniforms.step_size = 1
    /\ px.uniforms.base_distance = -1
    /\ px.samples = 4
    /\ px.accumulated_alpha < px.uniforms.opacity_threshold
    /\ ~InsideRay(px, px.traveled)

(***************************************************************************)
(* utils.rs: the camera controller alone, with the camera of the           *)
(* application: key events and updates in any order.                       *)
(***************************************************************************)
InitCamera ==
    /\ \E sz \in Sizes : InitApp(sz, 1)
    /\ px = PxIdle
    /\ loader = LoaderIdle

\* CameraController::process_events
CameraProcessEvents ==
    /\ \E keycode \in Keys, is_pressed \in BOOLEAN :
           LET r == ProcessEvents(camera_controller, keycode, is_pressed)
           IN  /\ PressedCount(r[1]) <= MaxKeysDown + 1
               /\ camera_controller' = r[1]
    /\ UNCHANGED <<sample_count, size, surface_configs, surface, camera,
                   front_face_pass, front_face_render_buffer, back_face_pass,
                   back_face_render_buffer, canvas_pass, next_tex, frame, exiting,
                   px, loader>>

\* CameraController::update_camera
CameraUpdate ==
    /\ LET cam == UpdateCamera(camera_controller, camera)
       IN  /\ cam.eye.dist <= MaxDist
           /\ cam.eye.dist >= -MaxDist
           /\ camera' = cam
    /\ UNCHANGED <<sample_count, size, surface_configs, surface,
                   camera_controller, front_face_pass, front_face_render_buffer,
                   back_face_pass, back_face_render_buffer, canvas_pass, next_tex,
                   frame, exiting, px, loader>>

NextCamera ==
    \/ CameraProcessEvents
    \/ CameraUpdate

SpecCamera == InitCamera /\ [][NextCamera]_vars

\* C30: the eye is never at the center nor past it; an update brings the
\* eye nearer to the center only when the forward key is held and the eye
\* is farther than speed from the center, and then by speed.
C30_ForwardStopsBeforeCenter ==
    /\ [](camera.eye.dist > 0)
    /\ [][camera'.eye.dist < camera.eye.dist =>
              /\ camera_controller.is_forward_pressed
              /\ camera.eye.dist > Speed
              /\ camera'.eye.dist = camera.eye.dist - Speed]_vars
    /\ [][(camera_controller.is_forward_pressed /\ camera.eye.dist <= Speed) =>
              camera'.eye.dist >= camera.eye.dist]_vars

\* the eye has stepped forward until it is within speed of the center and
\* the forward key is still held
C30_Witness ==
    /\ camera.eye.dist > 0
    /\ camera.eye.dist <= Speed
    /\ camera.eye.dist < InitDist - Speed * MaxForward
    /\ camera_controller.is_forward_pressed
    /\ UpdateCamera(camera_controller, camera).eye.dist >= camera.eye.dist

====
